---- MODULE Spec2Model ----
(***************************************************************************)
(* State-machine model of the UI-state extraction engine                   *)
(* (windows_mcp/tree/service.py, class Tree): the circuit breaker, the     *)
(* bounded root enumeration, the single-window fallback, the fan-out of    *)
(* window traversal jobs on the persistent ThreadPoolExecutor and the      *)
(* deadline-bounded join of get_appwise_nodes.                             *)
(*                                                                         *)
(* Time is a discrete clock `now` (one unit = one second).  The calling    *)
(* thread is blocked only inside Future.result(timeout) and                *)
(* as_completed(timeout); its own computation takes no time, so the clock  *)
(* advances only while the caller has nothing to do.  Pool workers start,  *)
(* finish, fail or block for ever at arbitrary moments.                    *)
(***************************************************************************)
EXTENDS Integers, Sequences, FiniteSets, TLC

VARIABLES
    now,                    \* time.monotonic()
    calls,                  \* number of get_state calls made so far
    executor,               \* self._executor: every live job, in submission order
    uia_disabled_until,     \* self._uia_disabled_until
    dom_info,               \* self.dom_info (0 = None, else the window it came from)
    pc,                     \* where the calling thread is inside get_state
    use_dom,                \* argument of the running call
    active_app,             \* argument of the running call
    other_apps_handle,      \* closure variable of collect_targets
    exclude_system_windows, \* closure variable of collect_targets
    t0,                     \* entry time of the running call
    waitEnd,                \* when the wait the caller is blocked in times out
    fut,                    \* the future get_state waits on (index in executor)
    root_partial,
    root_warnings,
    apps,                   \* the targets
    deadline,               \* get_appwise_nodes: deadline
    retry_counts,           \* get_appwise_nodes: retry_counts
    future_to_app,          \* get_appwise_nodes: keys of future_to_app
    pending,                \* futures of the running as_completed not yet yielded
    interactive_nodes,
    scrollable_nodes,
    dom_informative_nodes,
    is_partial,
    warnings,
    snap,                   \* the TreeState returned by the last call
    obs,                    \* observations of the last call (history, not program state)
    \* one run of get_nodes, looked at on its own
    gn_node,                \* node: the window, with its subtree
    gn_probe,               \* what Desktop.is_app_browser(node) does
    gn_use_dom,             \* use_dom
    gn_acc,                 \* the four buffers and what the traversal did
    gn_result,              \* the value get_nodes returned
    gn_prev,                \* the log of the run before (history)
    \* two workers that run get_nodes at the same time
    dom_bounding_box,       \* self.dom_bounding_box (0 = None)
    traversals              \* per worker: its window, where it is, its buffers

vars == <<now, calls, executor, uia_disabled_until, dom_info, pc, use_dom,
          active_app, other_apps_handle, exclude_system_windows, t0, waitEnd,
          fut, root_partial, root_warnings, apps, deadline, retry_counts,
          future_to_app, pending, interactive_nodes, scrollable_nodes,
          dom_informative_nodes, is_partial, warnings, snap, obs,
          gn_node, gn_probe, gn_use_dom, gn_acc, gn_result, gn_prev,
          dom_bounding_box, traversals>>

\* the variables of a run of get_nodes
walk == <<gn_node, gn_probe, gn_use_dom, gn_acc, gn_result, gn_prev,
          dom_bounding_box, traversals>>

----------------------------------------------------------------------------
(* Bounds of the model *)

MaxTime == 14
MaxCalls == 2
MaxWindows == 2

\* a further call is made while at most this many jobs of earlier calls are live
MaxDetached == 2

----------------------------------------------------------------------------
(* tree/config.py *)

THREAD_MAX_RETRIES == 3

\* float(os.getenv("WINDOWS_MCP_TREE_STATE_TIMEOUT_S", "6"))
TREE_STATE_TIMEOUT_S == 6

\* float(os.getenv("WINDOWS_MCP_TREE_STATE_TIMEOUT_DOM_S", "10"))
TREE_STATE_TIMEOUT_DOM_S == 10

\* float(os.getenv("WINDOWS_MCP_ROOT_ENUM_TIMEOUT_S", "2.0"))
ROOT_ENUM_TIMEOUT_S == 2

\* float(os.getenv("WINDOWS_MCP_UIA_TIMEOUT_COOLDOWN_S", "15"))
UIA_TIMEOUT_COOLDOWN_S == 15

\* max(1, int(os.getenv("WINDOWS_MCP_UIA_MAX_WORKERS", "8"))), here configured to 2
UIA_MAX_WORKERS == 2

\* the literal 1.0 of min(1.0, root_timeout_s)
FALLBACK_TIMEOUT_S == 1

Min(a, b) == IF a <= b THEN a ELSE b

Max(a, b) == IF a >= b THEN a ELSE b

----------------------------------------------------------------------------
(* The accessibility provider: the desktop root has the top-level children *)
(* 1..MaxWindows, in this order; the native window handle of child w is w. *)

Windows == 1..MaxWindows

\* root.GetChildren()
Children == [i \in Windows |-> i]

\* child.ClassName
ClassName(w) ==
    CASE w = 1 -> "Chrome_WidgetWin_1"
      [] w = 2 -> "Progman"
      [] OTHER -> "Notepad"

\* windows_mcp.desktop.config.EXCLUDED_APPS
EXCLUDED_APPS == {"Progman", "Shell_TrayWnd"}

\* Desktop.is_app_browser: the owning process is a known browser
is_app_browser(w) == ClassName(w) = "Chrome_WidgetWin_1"

\* a browser window whose subtree holds a child with AutomationId "RootWebArea"
HasRootWebArea(w) == is_app_browser(w)

\* values of the argument active_app: None, or an App with a handle (0 = no handle)
NoApp == [present |-> FALSE, handle |-> 0]

ActiveApps == {NoApp} \cup {[present |-> TRUE, handle |-> h] : h \in {0} \cup Windows}

----------------------------------------------------------------------------
(* get_state.collect_targets, run by a pool worker.  bad is the set of     *)
(* children whose NativeWindowHandle read raises.                          *)

\* the desktop root is left out whether an active window exists or not
KeepChild_never_desktop(w, others, active, exclude, bad) ==
    /\ w \notin bad
    /\ w \notin others
    /\ ClassName(w) # "Progman"
    /\ ~(exclude /\ ClassName(w) \in EXCLUDED_APPS)

\* the body of the loop of collect_targets: the child is appended
KeepChild(w, others, active, exclude, bad) ==
    /\ w \notin bad
    /\ w \notin others
    /\ ~(active.present /\ ClassName(w) = "Progman")
    /\ ~(exclude /\ ClassName(w) \in EXCLUDED_APPS)

RECURSIVE FilterChildren(_, _, _, _, _)
FilterChildren(cs, others, active, exclude, bad) ==
    IF cs = <<>> THEN <<>>
    ELSE (IF KeepChild(Head(cs), others, active, exclude, bad)
          THEN <<Head(cs)>> ELSE <<>>)
         \o FilterChildren(Tail(cs), others, active, exclude, bad)

collect_targets(others, active, exclude, bad) ==
    FilterChildren(Children, others, active, exclude, bad)

----------------------------------------------------------------------------
(* get_nodes, run by a pool worker: the three lists one successful         *)
(* traversal of window w returns.  An element is identified by the window  *)
(* it comes from.                                                          *)

EmptyResult == [e |-> <<>>, s |-> <<>>, t |-> <<>>]

get_nodes(w, dom) ==
    IF dom /\ ~is_app_browser(w)
    THEN EmptyResult
    ELSE [e |-> <<w>>, s |-> <<w>>, t |-> <<w>>]

----------------------------------------------------------------------------
(* The ThreadPoolExecutor.  A job is a record                              *)
(*   kind  "root" | "fallback" | "win"                                     *)
(*   app   the window of a "win" job (0 = None), the handle of a fallback  *)
(*   st    "queued" | "running" | "hung" | "done" | "failed" | "cancelled" *)
(*   own   submitted by the call that is running (FALSE: detached)         *)
(*   res   the value a done job returned                                   *)
(*   err   the job caught a provider error and went on                     *)
(*   early the job finished strictly before the join deadline of its call  *)
(* "hung" is a job blocked inside the provider for ever.                   *)

Job(kind, app) ==
    [kind |-> kind, app |-> app, st |-> "queued", own |-> TRUE,
     res |-> <<>>, err |-> FALSE, early |-> FALSE]

\* the callable is run at once, by the thread that wanted to submit it
submit_inline(pool, kind, app) ==
    Append(pool, [Job(kind, app) EXCEPT !.st = "done"])

\* Executor.submit
submit(pool, kind, app) == Append(pool, Job(kind, app))

\* a cancel that also stops a job that has started
cancel_started(pool, S) ==
    [j \in DOMAIN pool |->
        IF j \in S /\ pool[j].st \in {"queued", "running", "hung"}
        THEN [pool[j] EXCEPT !.st = "cancelled"]
        ELSE pool[j]]

\* Future.cancel: only a job that has not started is cancelled
cancel(pool, S) ==
    [j \in DOMAIN pool |->
        IF j \in S /\ pool[j].st = "queued"
        THEN [pool[j] EXCEPT !.st = "cancelled"]
        ELSE pool[j]]

\* Future.done()
Finished(job) == job.st \in {"done", "failed"}

\* only the jobs of the running call are counted
Busy_own(pool) ==
    {j \in DOMAIN pool : pool[j].own /\ pool[j].st \in {"running", "hung"}}

\* workers that are executing a job
Busy(pool) == {j \in DOMAIN pool : pool[j].st \in {"running", "hung"}}

Queued(pool) == {j \in DOMAIN pool : pool[j].st = "queued"}

\* the work queue is first in, first out
NextQueued(pool) == CHOOSE j \in Queued(pool) : \A k \in Queued(pool) : j <= k

\* a traversal of this job sets self.dom_info when it reaches the document root
Captures(job) == job.kind = "win" /\ job.app # 0 /\ HasRootWebArea(job.app)

\* What the pool keeps of a call that has returned: the jobs still queued or
\* executing.  Nothing refers to them any more, so a detached job matters only
\* through the worker it occupies and the document root it may still capture,
\* and the detached jobs are kept in a fixed order, the queued ones last.
Live(job) == job.st \in {"queued", "running", "hung"}

Detached(st, app) ==
    [kind |-> "win", app |-> app, st |-> st, own |-> FALSE, res |-> <<>>,
     err |-> FALSE, early |-> FALSE]

Forget(job) ==
    Detached(job.st, IF Captures(job) /\ job.st # "hung" THEN job.app ELSE 0)

RECURSIVE LiveJobs(_)
LiveJobs(pool) ==
    IF pool = <<>> THEN <<>>
    ELSE (IF Live(Head(pool)) THEN <<Forget(Head(pool))>> ELSE <<>>)
         \o LiveJobs(Tail(pool))

Rank(job) ==
    CASE job.st = "hung" -> 0
      [] job.st = "running" -> 1 + job.app
      [] OTHER -> 2 + MaxWindows

RECURSIVE Insert(_, _)
Insert(job, sorted) ==
    IF sorted = <<>> THEN <<job>>
    ELSE IF Rank(job) < Rank(Head(sorted)) THEN <<job>> \o sorted
    ELSE <<Head(sorted)>> \o Insert(job, Tail(sorted))

RECURSIVE Sorted(_)
Sorted(jobs) == IF jobs = <<>> THEN <<>> ELSE Insert(Head(jobs), Sorted(Tail(jobs)))

Detach(pool) == Sorted(LiveJobs(pool))

----------------------------------------------------------------------------
(* Decisions of get_state and get_appwise_nodes *)

\* timeout_s = TREE_STATE_TIMEOUT_DOM_S if use_dom else TREE_STATE_TIMEOUT_S
timeout_s(dom) == IF dom THEN TREE_STATE_TIMEOUT_DOM_S ELSE TREE_STATE_TIMEOUT_S

\* root_timeout_s = min(ROOT_ENUM_TIMEOUT_S, timeout_s)
root_timeout_s(dom) == Min(ROOT_ENUM_TIMEOUT_S, timeout_s(dom))

\* timeout=min(1.0, root_timeout_s)
fallback_timeout_s(dom) == Min(FALLBACK_TIMEOUT_S, root_timeout_s(dom))

\* the comparison the wrong way round
breaker_open_reversed(t, until) == until < t

\* if now < self._uia_disabled_until
breaker_open(t, until) == t < until

\* the cooldown is not added
trip_breaker_no_cooldown(until, t) == Max(until, t)

\* max(self._uia_disabled_until, time.monotonic() + UIA_TIMEOUT_COOLDOWN_S)
trip_breaker(until, t) == Max(until, t + UIA_TIMEOUT_COOLDOWN_S)

\* if not apps and active_app and active_app.handle
needs_fallback(targets, active) ==
    targets = <<>> /\ active.present /\ active.handle # 0

\* a failed job is resubmitted as long as the deadline allows
may_resubmit_until_deadline(count, remaining) == remaining > 0

\* if retry_counts[app] < THREAD_MAX_RETRIES and (deadline - time.monotonic()) > 0
may_resubmit(count, remaining) == count < THREAD_MAX_RETRIES /\ remaining > 0

\* the result of the job is appended twice
extend_twice(list, more) == list \o more \o more

\* list.extend, in the order in which as_completed yields the futures
extend(list, more) == list \o more

\* the flag of the root phase is forgotten
merge_partial_join_only(join_partial, rp) == join_partial

\* is_partial = bool(is_partial or root_partial)
merge_partial(join_partial, rp) == join_partial \/ rp

\* warnings or root_warnings
merge_warnings_either(join_warnings, rw) ==
    IF join_warnings # <<>> THEN join_warnings ELSE rw

\* warnings = (warnings or []) + root_warnings
merge_warnings(join_warnings, rw) == join_warnings \o rw

\* every site catches FuturesTimeoutError only
except_clauses_timeout_only(site) == <<"FuturesTimeoutError">>

\* The except clauses around each blocking call of the calling thread, in the
\* order in which they are written.  A job raises an "Exception"; a wait that
\* times out raises "FuturesTimeoutError", which is an Exception too.
except_clauses(site) ==
    CASE site = "root" -> <<"FuturesTimeoutError", "Exception">>     \* lines 123, 133
      [] site = "fallback" -> <<"Exception">>                        \* line 143
      [] site = "result" -> <<"Exception">>                          \* line 210
      [] OTHER -> <<"FuturesTimeoutError">>                          \* line 222

isinstance(exc, class) == exc = class \/ class = "Exception"

\* the first except clause that catches exc at this site (0: it escapes)
handler(site, exc) ==
    LET cs == except_clauses(site)
        hit == {i \in DOMAIN cs : isinstance(exc, cs[i])}
    IN  IF hit = {} THEN 0 ELSE CHOOSE i \in hit : \A k \in hit : i <= k

W_DISABLED == "UIAutomation enumeration temporarily disabled"

W_ROOT_TIMEOUT == "Root UIAutomation enumeration timed out"

W_ROOT_FAILED == "Root UIAutomation enumeration failed"

W_FALLBACK == "Active window UIAutomation handle lookup failed"

W_JOIN_TIMEOUT == "UI tree enumeration timed out"

W_SUBTREE == "Some UIA subtrees failed"

----------------------------------------------------------------------------
(* The frame of a get_state call *)

NoLocals ==
    [use_dom |-> FALSE, active_app |-> NoApp, other_apps_handle |-> {},
     exclude_system_windows |-> FALSE, t0 |-> 0, waitEnd |-> 0, fut |-> 0,
     root_partial |-> FALSE, root_warnings |-> <<>>, apps |-> <<>>,
     deadline |-> 0, retry_counts |-> <<>>, future_to_app |-> {},
     pending |-> {}, interactive_nodes |-> <<>>, scrollable_nodes |-> <<>>,
     dom_informative_nodes |-> <<>>, is_partial |-> FALSE, warnings |-> <<>>]

Locals ==
    [use_dom |-> use_dom, active_app |-> active_app,
     other_apps_handle |-> other_apps_handle,
     exclude_system_windows |-> exclude_system_windows, t0 |-> t0,
     waitEnd |-> waitEnd, fut |-> fut, root_partial |-> root_partial,
     root_warnings |-> root_warnings, apps |-> apps, deadline |-> deadline,
     retry_counts |-> retry_counts, future_to_app |-> future_to_app,
     pending |-> pending, interactive_nodes |-> interactive_nodes,
     scrollable_nodes |-> scrollable_nodes,
     dom_informative_nodes |-> dom_informative_nodes,
     is_partial |-> is_partial, warnings |-> warnings]

SetLocals(L) ==
    /\ use_dom' = L.use_dom
    /\ active_app' = L.active_app
    /\ other_apps_handle' = L.other_apps_handle
    /\ exclude_system_windows' = L.exclude_system_windows
    /\ t0' = L.t0
    /\ waitEnd' = L.waitEnd
    /\ fut' = L.fut
    /\ root_partial' = L.root_partial
    /\ root_warnings' = L.root_warnings
    /\ apps' = L.apps
    /\ deadline' = L.deadline
    /\ retry_counts' = L.retry_counts
    /\ future_to_app' = L.future_to_app
    /\ pending' = L.pending
    /\ interactive_nodes' = L.interactive_nodes
    /\ scrollable_nodes' = L.scrollable_nodes
    /\ dom_informative_nodes' = L.dom_informative_nodes
    /\ is_partial' = L.is_partial
    /\ warnings' = L.warnings

locals == <<use_dom, active_app, other_apps_handle, exclude_system_windows,
            t0, waitEnd, fut, root_partial, root_warnings, apps, deadline,
            retry_counts, future_to_app, pending, interactive_nodes,
            scrollable_nodes, dom_informative_nodes, is_partial, warnings>>

\* TreeState(...)
TreeState(dom, inodes, snodes, tnodes, partial, warns) ==
    [dom_info |-> dom, interactive_nodes |-> inodes, scrollable_nodes |-> snodes,
     dom_informative_nodes |-> tnodes, is_partial |-> partial, warnings |-> warns]

----------------------------------------------------------------------------
(* Observations of the running or last call.  They record what happened,   *)
(* and no action of the program reads them.                                *)
(*   phase      "none" | "running" | "returned" | "raised"                 *)
(*   short      the call was short-circuited by the breaker                *)
(*   cooling    the call was made less than the cooldown after the last    *)
(*              breaker trip                                               *)
(*   trip_end   T + C, for the last breaker trip at time T with cooldown C *)
(*   tripped    the breaker has been tripped, in this call or an earlier   *)
(*   signals    the partial signals of the call                            *)
(*   skipped    the root enumeration skipped a child whose handle read     *)
(*              raised                                                     *)
(*   root_st    what the root job was doing when its wait timed out, and   *)
(*              after the cancel                                           *)
(*   targets    the targets of the fan-out, in the order of submission     *)
(*   retried    a failed window job was resubmitted                        *)
(*   drops      the window jobs dropped: window, retry count, number of    *)
(*              resubmissions, whether the deadline had passed             *)
(*   stuck      a job of the call was executing, blocked for ever or not,  *)
(*              when the call returned                                     *)
(*   lost       the windows of the jobs that returned strictly before the  *)
(*              deadline and whose result the call never took              *)
(*   left       the jobs outstanding at the return: state before and after *)
(*              the cancel                                                 *)

NoObs ==
    [phase |-> "none", short |-> FALSE, cooling |-> FALSE, trip_end |-> 0,
     tripped |-> FALSE, signals |-> {}, skipped |-> FALSE, root_st |-> <<>>,
     targets |-> <<>>, retried |-> FALSE, drops |-> {}, stuck |-> FALSE,
     lost |-> {}, left |-> {}]

\* the jobs of the running call
Own(pool) == {j \in DOMAIN pool : pool[j].own}

Range(f) == {f[i] : i \in DOMAIN f}

NoSnap == TreeState(0, <<>>, <<>>, <<>>, FALSE, <<>>)

----------------------------------------------------------------------------
(* get_state and get_appwise_nodes, from one blocking wait of the calling  *)
(* thread to the next.  pool, L and O are the executor, the frame and the  *)
(* observations as the steps taken so far have left them.                  *)

\* time.monotonic() has no fixed origin: while no call runs the model keeps the
\* origin at the present, so that now = 0 and a stored time is the time left
Shifted(t) == Max(0, t - now)

\* the clock and the breaker after a step of the calling thread that leaves
\* the breaker at until
Clock(until) ==
    IF pc' = "idle"
    THEN now' = 0 /\ uia_disabled_until' = Shifted(until)
    ELSE now' = now /\ uia_disabled_until' = until

\* lines 227-241 and 156-174: cancel what is left, merge and return
return_state(pool, L, O) ==
    /\ snap' = TreeState(dom_info,
                         L.interactive_nodes, L.scrollable_nodes,
                         L.dom_informative_nodes,
                         merge_partial(L.is_partial, L.root_partial),
                         merge_warnings(L.warnings, L.root_warnings))
    /\ executor' = Detach(cancel(pool, L.future_to_app))
    /\ pc' = "idle"
    /\ SetLocals(NoLocals)
    /\ obs' = [O EXCEPT
                  !.phase = "returned",
                  !.trip_end = Shifted(@),
                  !.stuck = \E j \in Own(pool) : pool[j].st \in {"running", "hung"},
                  !.lost = {pool[j].app : j \in {k \in L.future_to_app :
                                pool[k].st = "done" /\ pool[k].early}},
                  !.left = {<<pool[j].st, cancel(pool, L.future_to_app)[j].st>> :
                                j \in L.future_to_app}]

\* lines 193-200: the head of the while loop, up to the call of as_completed
loop_top(pool, L, O) ==
    IF L.future_to_app = {}
    THEN return_state(pool, L, O)
    ELSE IF L.deadline - now <= 0
    THEN return_state(pool,
                      [L EXCEPT !.is_partial = TRUE,
                                !.warnings = Append(@, W_JOIN_TIMEOUT)],
                      [O EXCEPT !.signals = @ \cup {"deadline"}])
    ELSE /\ executor' = pool
         /\ pc' = "join_wait"
         /\ SetLocals([L EXCEPT !.pending = L.future_to_app,
                                !.waitEnd = now + (L.deadline - now)])
         /\ obs' = O
         /\ snap' = snap

\* the arguments that only collect_targets and the fallback test read are dead
\* once the fan-out begins
Dead(L) ==
    [L EXCEPT !.active_app = NoApp, !.other_apps_handle = {},
              !.exclude_system_windows = FALSE]

\* lines 176-191: the fan-out, one job per target in the order of apps
get_appwise_nodes(pool, L, O) ==
    LET n == Len(pool)
        k == Len(L.apps)
        pool2 == pool \o [i \in 1..k |-> Job("win", L.apps[i])]
        L2 == [Dead(L) EXCEPT !.deadline = now + timeout_s(L.use_dom),
                        !.retry_counts = [a \in Range(L.apps) |-> 0],
                        !.future_to_app = (n + 1)..(n + k),
                        !.fut = 0]
    IN  loop_top(pool2, L2, [O EXCEPT !.targets = L.apps])

\* lines 138-142: the fallback is submitted, or the fan-out begins
after_root(pool, L, O) ==
    IF needs_fallback(L.apps, L.active_app)
    THEN /\ executor' = submit(pool, "fallback", L.active_app.handle)
         /\ pc' = "fallback_wait"
         /\ SetLocals([L EXCEPT !.fut = Len(pool) + 1,
                                !.waitEnd = now + fallback_timeout_s(L.use_dom)])
         /\ obs' = O
         /\ snap' = snap
    ELSE get_appwise_nodes(pool, L, O)

\* lines 71-122: entry, breaker check, submission of the root enumeration
get_state(a, o, d, x) ==
    /\ pc = "idle"
    /\ calls < MaxCalls
    /\ Len(executor) <= MaxDetached
    /\ calls' = calls + 1
    /\ IF breaker_open(now, uia_disabled_until)
       THEN /\ snap' = TreeState(0, <<>>, <<>>, <<>>, TRUE, <<W_DISABLED>>)
            /\ obs' = [NoObs EXCEPT !.phase = "returned", !.short = TRUE,
                                    !.cooling = now < obs.trip_end,
                                    !.trip_end = obs.trip_end,
                                    !.tripped = obs.tripped,
                                    !.signals = {"breaker"}]
            /\ UNCHANGED <<executor, pc, locals>>
       ELSE /\ executor' = submit(executor, "root", 0)
            /\ pc' = "root_wait"
            /\ SetLocals([NoLocals EXCEPT
                    !.use_dom = d, !.active_app = a, !.other_apps_handle = o,
                    !.exclude_system_windows = x, !.t0 = now,
                    !.fut = Len(executor) + 1,
                    !.waitEnd = now + root_timeout_s(d)])
            /\ obs' = [NoObs EXCEPT !.phase = "running",
                                    !.cooling = now < obs.trip_end,
                                    !.trip_end = obs.trip_end,
                                    !.tripped = obs.tripped]
            /\ snap' = NoSnap
    /\ UNCHANGED <<now, uia_disabled_until, dom_info>>
    /\ UNCHANGED walk

\* an exception no clause catches leaves get_state: the call returns nothing
propagate(pool, O) ==
    /\ executor' = Detach(pool)
    /\ pc' = "idle"
    /\ SetLocals(NoLocals)
    /\ snap' = snap
    /\ obs' = [O EXCEPT !.phase = "raised", !.trip_end = Shifted(@)]

\* lines 123-132: the clause for FuturesTimeoutError of the root enumeration
root_timed_out ==
    /\ LET pool == cancel(executor, {fut})
       IN  after_root(pool,
                      [Locals EXCEPT !.root_partial = TRUE,
                                     !.root_warnings = Append(@, W_ROOT_TIMEOUT)],
                      [obs EXCEPT !.signals = @ \cup {"root_timeout"},
                                  !.trip_end = now + UIA_TIMEOUT_COOLDOWN_S,
                                  !.tripped = TRUE,
                                  !.root_st = <<executor[fut].st, pool[fut].st>>])
    /\ Clock(trip_breaker(uia_disabled_until, now))

\* lines 133-136: the clause for Exception of the root enumeration
root_failed ==
    /\ after_root(executor,
                  [Locals EXCEPT !.root_partial = TRUE,
                                 !.root_warnings = Append(@, W_ROOT_FAILED)],
                  [obs EXCEPT !.signals = @ \cup {"root_failed"}])
    /\ Clock(uia_disabled_until)

\* lines 120-136: fut.result(timeout=root_timeout_s) raised exc
root_raised(exc) ==
    CASE handler("root", exc) = 1 -> root_timed_out
      [] handler("root", exc) = 2 -> root_failed
      [] OTHER -> propagate(executor, obs) /\ Clock(uia_disabled_until)

\* line 122: fut.result returned the targets, or the root job had raised
RootResult ==
    /\ pc = "root_wait"
    /\ Finished(executor[fut])
    /\ IF executor[fut].st = "done"
       THEN /\ after_root(executor, [Locals EXCEPT !.apps = executor[fut].res],
                          [obs EXCEPT !.skipped = executor[fut].err])
            /\ Clock(uia_disabled_until)
       ELSE root_raised("Exception")
    /\ UNCHANGED <<calls, dom_info>>
    /\ UNCHANGED walk

\* line 122: fut.result timed out
RootTimeout ==
    /\ pc = "root_wait"
    /\ now >= waitEnd
    /\ ~Finished(executor[fut])
    /\ root_raised("FuturesTimeoutError")
    /\ UNCHANGED <<calls, dom_info>>
    /\ UNCHANGED walk

\* lines 140-145: the submit or the wait of the fallback raised exc
fallback_raised(exc) ==
    IF handler("fallback", exc) = 1
    THEN get_appwise_nodes(executor,
                           [Locals EXCEPT !.root_partial = TRUE,
                                          !.root_warnings = Append(@, W_FALLBACK)],
                           [obs EXCEPT !.signals = @ \cup {"fallback"}])
    ELSE propagate(executor, obs)

\* line 142: the fallback future returned the control, or the lookup had raised
FallbackResult ==
    /\ pc = "fallback_wait"
    /\ Finished(executor[fut])
    /\ IF executor[fut].st = "done"
       THEN get_appwise_nodes(executor,
                              [Locals EXCEPT !.apps = executor[fut].res], obs)
       ELSE fallback_raised("Exception")
    /\ Clock(uia_disabled_until)
    /\ UNCHANGED <<calls, dom_info>>
    /\ UNCHANGED walk

\* line 142: the wait for the fallback future timed out
FallbackTimeout ==
    /\ pc = "fallback_wait"
    /\ now >= waitEnd
    /\ ~Finished(executor[fut])
    /\ fallback_raised("FuturesTimeoutError")
    /\ Clock(uia_disabled_until)
    /\ UNCHANGED <<calls, dom_info>>
    /\ UNCHANGED walk

\* how often the traversal of the window has been submitted in the running call
Submissions(pool, app) ==
    Cardinality({j \in Own(pool) : pool[j].kind = "win" /\ pool[j].app = app})

\* the body of the for loop is done: back in as_completed, or at the loop head
next_future(pool, L, O) ==
    IF L.pending = {}
    THEN loop_top(pool, L, O)
    ELSE /\ executor' = pool
         /\ pc' = "join_wait"
         /\ SetLocals(L)
         /\ obs' = O
         /\ snap' = snap

\* lines 222-225: the clause for FuturesTimeoutError of the join; any other
\* exception that reaches the outer try leaves get_appwise_nodes and get_state
join_raised(exc, pool, L, O) ==
    IF handler("join", exc) = 1
    THEN return_state(pool,
                      [L EXCEPT !.is_partial = TRUE,
                                !.warnings = Append(@, W_JOIN_TIMEOUT)],
                      [O EXCEPT !.signals = @ \cup {"deadline"}])
    ELSE propagate(pool, O)

\* lines 210-221: future.result() raised exc for the job of window app
result_raised(exc, app, L) ==
    IF handler("result", exc) = 1
    THEN LET c == L.retry_counts[app] + 1
             L2 == [L EXCEPT !.retry_counts[app] = c]
         IN  IF may_resubmit(c, L.deadline - now)
             THEN next_future(submit(executor, "win", app),
                     [L2 EXCEPT !.future_to_app = @ \cup {Len(executor) + 1}],
                     [obs EXCEPT !.retried = TRUE])
             ELSE next_future(executor,
                     [L2 EXCEPT !.is_partial = TRUE,
                                !.warnings = Append(@, W_SUBTREE)],
                     [obs EXCEPT
                        !.signals = @ \cup {"dropped"},
                        !.drops = @ \cup {[app |-> app, count |-> c,
                             resub |-> Submissions(executor, app) - 1,
                             late |-> L.deadline - now <= 0]}])
    ELSE join_raised(exc, executor, L, obs)

\* lines 200-221: as_completed yields future j, and the loop body handles it
JoinNext(j) ==
    /\ pc = "join_wait"
    /\ j \in pending
    /\ Finished(executor[j])
    /\ LET app == executor[j].app
           L == [Locals EXCEPT !.future_to_app = @ \ {j}, !.pending = @ \ {j}]
       IN  IF executor[j].st = "done"
           THEN LET result == executor[j].res
                IN  next_future(executor,
                        [L EXCEPT
                           !.interactive_nodes = extend(@, result.e),
                           !.scrollable_nodes = extend(@, result.s),
                           !.dom_informative_nodes = extend(@, result.t)],
                        obs)
           ELSE result_raised("Exception", app, L)
    /\ Clock(uia_disabled_until)
    /\ UNCHANGED <<calls, dom_info>>
    /\ UNCHANGED walk

\* line 200: as_completed raised TimeoutError
JoinTimeout ==
    /\ pc = "join_wait"
    /\ now >= waitEnd
    /\ join_raised("FuturesTimeoutError", executor, Locals, obs)
    /\ Clock(uia_disabled_until)
    /\ UNCHANGED <<calls, dom_info>>
    /\ UNCHANGED walk

----------------------------------------------------------------------------
(* The pool workers *)

\* the DOMInfo object a TreeState holds is updated in place
update_dom_info(state, value) == [state EXCEPT !.dom_info = value]

\* self.dom_info = DOMInfo(...): the attribute is bound to a new object, and a
\* TreeState that holds the object bound before keeps that object
assign_dom_info(state, value) == state

\* once no call is running, the finished jobs are referred to by nothing
Keep(pool) == IF pc = "idle" THEN Detach(pool) ELSE pool

\* an idle worker takes the first job of the work queue
WorkerStart ==
    /\ Queued(executor) # {}
    /\ Cardinality(Busy(executor)) < UIA_MAX_WORKERS
    /\ executor' = [executor EXCEPT ![NextQueued(executor)].st = "running"]
    /\ UNCHANGED <<now, calls, uia_disabled_until, dom_info, pc, locals, snap, obs>>
    /\ UNCHANGED walk

\* what self.dom_info may be after job j stops by raising or by blocking: the
\* traversal had reached the document root of its window (lines 521-532) or not
MayCapture(job) == IF Captures(job) THEN {dom_info, job.app} ELSE {dom_info}

\* a provider call of job j never returns
WorkerHang(j) ==
    /\ j \in DOMAIN executor
    /\ executor[j].st = "running"
    /\ executor' = Keep([executor EXCEPT ![j].st = "hung"])
    /\ dom_info' \in MayCapture(executor[j])
    /\ snap' = assign_dom_info(snap, dom_info')
    /\ UNCHANGED <<now, calls, uia_disabled_until, pc, locals, obs>>
    /\ UNCHANGED walk

\* the calling thread is waiting for the value of the job
Awaited(job) ==
    /\ job.own
    /\ \/ job.kind = "root" /\ pc = "root_wait"
       \/ job.kind = "fallback" /\ pc = "fallback_wait"

\* the children whose handle read may raise while job j runs
BadSets(job) ==
    IF Awaited(job) /\ job.kind = "root" THEN SUBSET Windows ELSE {{}}

\* what uia.ControlFromHandle may return: the control of the window, or None
Controls(job) ==
    IF Awaited(job) /\ job.kind = "fallback" THEN {job.app, 0} ELSE {0}

\* the value job j returns (the value of a job nobody waits for is not read)
Value(job, bad, ctrl) ==
    CASE job.own /\ job.kind = "win" -> get_nodes(job.app, use_dom)
      [] ~Awaited(job) -> <<>>
      [] job.kind = "root" ->
            collect_targets(other_apps_handle, active_app,
                            exclude_system_windows, bad)
      [] job.kind = "fallback" -> <<ctrl>>
      [] OTHER -> <<>>

\* get_nodes(None, ...) raises at node.BoundingRectangle
CanReturn(job) == job.kind = "win" /\ job.own => job.app # 0

\* the job finishes strictly before the join deadline of the call it belongs to
Early(job) == job.own /\ job.kind = "win" /\ pc = "join_wait" /\ now < deadline

\* job j returns; a traversal has passed the document root of its window
WorkerReturn(j) ==
    /\ j \in DOMAIN executor
    /\ executor[j].st = "running"
    /\ CanReturn(executor[j])
    /\ \E bad \in BadSets(executor[j]), ctrl \in Controls(executor[j]) :
          executor' = Keep([executor EXCEPT
                              ![j].st = "done",
                              ![j].res = Value(executor[j], bad, ctrl),
                              ![j].err = bad # {},
                              ![j].early = Early(executor[j])])
    /\ dom_info' = IF Captures(executor[j]) THEN executor[j].app ELSE dom_info
    /\ snap' = assign_dom_info(snap, dom_info')
    /\ UNCHANGED <<now, calls, uia_disabled_until, pc, locals, obs>>
    /\ UNCHANGED walk

\* job j raises
WorkerRaise(j) ==
    /\ j \in DOMAIN executor
    /\ executor[j].st = "running"
    /\ executor[j].own
    /\ executor' = Keep([executor EXCEPT ![j].st = "failed",
                                         ![j].early = Early(executor[j])])
    /\ dom_info' \in MayCapture(executor[j])
    /\ snap' = assign_dom_info(snap, dom_info')
    /\ UNCHANGED <<now, calls, uia_disabled_until, pc, locals, obs>>
    /\ UNCHANGED walk

----------------------------------------------------------------------------
(* Time *)

\* the calling thread can take a step now
CallerEnabled ==
    \/ /\ pc \in {"root_wait", "fallback_wait"}
       /\ Finished(executor[fut]) \/ now >= waitEnd
    \/ /\ pc = "join_wait"
       /\ (\E j \in pending : Finished(executor[j])) \/ now >= waitEnd

\* one second passes: while a call runs the clock advances, and while none
\* runs the time left of the cooldown shrinks
Tick ==
    /\ ~CallerEnabled
    /\ IF pc = "idle"
       THEN /\ calls < MaxCalls
            /\ uia_disabled_until > 0
            /\ uia_disabled_until' = uia_disabled_until - 1
            /\ obs' = [obs EXCEPT !.trip_end = Max(0, @ - 1)]
            /\ UNCHANGED now
       ELSE /\ now < MaxTime
            /\ now' = now + 1
            /\ UNCHANGED <<uia_disabled_until, obs>>
    /\ UNCHANGED <<calls, executor, dom_info, pc, locals, snap>>
    /\ UNCHANGED walk

----------------------------------------------------------------------------

\* the engine after Tree.__init__, no call made yet
Constructed ==
    /\ now = 0
    /\ calls = 0
    /\ executor = <<>>
    /\ uia_disabled_until = 0
    /\ dom_info = 0
    /\ dom_bounding_box = 0
    /\ pc = "idle"
    /\ use_dom = FALSE
    /\ active_app = NoApp
    /\ other_apps_handle = {}
    /\ exclude_system_windows = FALSE
    /\ t0 = 0
    /\ waitEnd = 0
    /\ fut = 0
    /\ root_partial = FALSE
    /\ root_warnings = <<>>
    /\ apps = <<>>
    /\ deadline = 0
    /\ retry_counts = <<>>
    /\ future_to_app = {}
    /\ pending = {}
    /\ interactive_nodes = <<>>
    /\ scrollable_nodes = <<>>
    /\ dom_informative_nodes = <<>>
    /\ is_partial = FALSE
    /\ warnings = <<>>
    /\ snap = NoSnap
    /\ obs = NoObs

Init ==
    /\ Constructed
    /\ gn_node = <<>>
    /\ gn_probe = "none"
    /\ gn_use_dom = FALSE
    /\ gn_acc = <<>>
    /\ gn_result = <<>>
    /\ gn_prev = <<>>
    /\ traversals = <<>>

Next ==
    \/ \E a \in ActiveApps, o \in SUBSET Windows, d \in BOOLEAN, x \in BOOLEAN :
          get_state(a, o, d, x)
    \/ RootResult
    \/ RootTimeout
    \/ FallbackResult
    \/ FallbackTimeout
    \/ \E j \in DOMAIN executor : JoinNext(j)
    \/ JoinTimeout
    \/ WorkerStart
    \/ \E j \in DOMAIN executor : WorkerHang(j)
    \/ \E j \in DOMAIN executor : WorkerReturn(j)
    \/ \E j \in DOMAIN executor : WorkerRaise(j)
    \/ Tick

Spec == Init /\ [][Next]_vars

----------------------------------------------------------------------------
(* get_nodes in detail: the traversal of one window.  A node of the        *)
(* accessibility tree is a record of what the provider answers for it:     *)
(*   id     the identity of the node, also its Name                        *)
(*   ctl    ControlTypeName          cls    ClassName                      *)
(*   aid    AutomationId             loc    LocalizedControlType           *)
(*   off    IsOffscreen              en     IsEnabled                      *)
(*   ctrl   IsControlElement         kbd    IsKeyboardFocusable            *)
(*   box    BoundingRectangle        act    DefaultAction of the legacy    *)
(*   scroll the scroll pattern: "none" (GetPattern gives None), "v"        *)
(*          (VerticallyScrollable) or "h" (not VerticallyScrollable)       *)
(*   modal  IsModal of the window pattern                                  *)
(*   err    the attributes whose read raises                               *)
(*   kids   GetChildren(), in sibling order                                *)

\* tree/config.py
INTERACTIVE_CONTROL_TYPE_NAMES ==
    {"ButtonControl", "ListItemControl", "MenuItemControl", "EditControl",
     "CheckBoxControl", "RadioButtonControl", "ComboBoxControl",
     "HyperlinkControl", "SplitButtonControl", "TabItemControl",
     "TreeItemControl", "DataItemControl", "HeaderItemControl",
     "TextBoxControl", "SpinnerControl", "ScrollBarControl"}

DOCUMENT_CONTROL_TYPE_NAMES == {"DocumentControl"}

INFORMATIVE_CONTROL_TYPE_NAMES == {"TextControl", "ImageControl", "StatusBarControl"}

DEFAULT_ACTIONS == {"Click", "Press", "Jump", "Check", "Uncheck", "Double Click"}

\* self.screen_size, as Desktop.get_screen_size() gave it at construction
ScreenWidth == 4

ScreenHeight == 3

\* uiautomation.Rect
Rect(l, t, r, b) == [left |-> l, top |-> t, right |-> r, bottom |-> b]

width(box) == box.right - box.left

height(box) == box.bottom - box.top

isempty(box) == width(box) = 0 \/ height(box) = 0

\* BoundingBox(left=..., top=..., right=..., bottom=..., width=..., height=...)
BoundingBox(l, t, r, b, w, h) ==
    [left |-> l, top |-> t, right |-> r, bottom |-> b, width |-> w, height |-> h]

\* self.screen_box
screen_box == BoundingBox(0, 0, ScreenWidth, ScreenHeight, ScreenWidth, ScreenHeight)

\* Tree.iou_bounding_box
iou_bounding_box(window_box, element_box) ==
    LET intersection_left ==
            Max(screen_box.left, Max(window_box.left, element_box.left))
        intersection_top ==
            Max(screen_box.top, Max(window_box.top, element_box.top))
        intersection_right ==
            Min(screen_box.right, Min(window_box.right, element_box.right))
        intersection_bottom ==
            Min(screen_box.bottom, Min(window_box.bottom, element_box.bottom))
    IN  IF intersection_right > intersection_left
           /\ intersection_bottom > intersection_top
        THEN BoundingBox(intersection_left, intersection_top,
                         intersection_right, intersection_bottom,
                         intersection_right - intersection_left,
                         intersection_bottom - intersection_top)
        ELSE BoundingBox(0, 0, 0, 0, 0, 0)

\* the read of the attribute raises
Raises(node, attr) == attr \in node.err

\* is_element_visible (it has no try of its own)
is_element_visible(node) ==
    IF isempty(node.box) THEN FALSE
    ELSE /\ width(node.box) * height(node.box) > 0
         /\ (~node.off) \/ node.ctl \in {"EditControl"}
         /\ node.ctrl

\* is_element_enabled
is_element_enabled(node) ==
    IF Raises(node, "IsEnabled") THEN FALSE ELSE node.en

\* is_default_action
is_default_action(node) == node.act \in DEFAULT_ACTIONS

\* is_element_image raises, at node.IsKeyboardFocusable
is_element_image_raises(node) ==
    /\ node.ctl = "ImageControl"
    /\ node.loc # "graphic"
    /\ Raises(node, "IsKeyboardFocusable")

\* is_element_image (it has no try of its own)
is_element_image(node) ==
    node.ctl = "ImageControl" /\ (node.loc = "graphic" \/ ~node.kbd)

\* is_keyboard_focusable
is_keyboard_focusable(node) ==
    IF node.ctl \in {"EditControl", "ButtonControl", "CheckBoxControl",
                     "RadioButtonControl", "TabItemControl"}
    THEN TRUE
    ELSE IF Raises(node, "IsKeyboardFocusable") THEN FALSE ELSE node.kbd

\* is_element_text
is_element_text(node) ==
    IF node.ctl \in INFORMATIVE_CONTROL_TYPE_NAMES
    THEN IF is_element_visible(node) /\ is_element_enabled(node)
         THEN IF is_element_image_raises(node) THEN FALSE
              ELSE ~is_element_image(node)
         ELSE FALSE
    ELSE FALSE

\* is_window_modal
is_window_modal(node) ==
    IF Raises(node, "IsModal") THEN FALSE ELSE node.modal

\* element_has_child_element (None counts as False)
element_has_child_element(node, control_type, child_control_type) ==
    IF node.loc = control_type
    THEN IF node.kids = <<>> THEN FALSE
         ELSE node.kids[1].loc = child_control_type
    ELSE FALSE

\* is_element_scrollable
is_element_scrollable(node) ==
    IF node.ctl \in (INTERACTIVE_CONTROL_TYPE_NAMES \cup INFORMATIVE_CONTROL_TYPE_NAMES)
       \/ node.off
    THEN FALSE
    ELSE IF node.scroll = "none" THEN FALSE
    ELSE node.scroll = "v"

\* the verdict follows the engine: interactive once a document was captured
is_element_interactive_engine(node, is_browser) == dom_info # 0

\* a Group is judged outside a browser as it is inside
is_element_interactive_groups_anywhere(node, is_browser) ==
    IF is_browser /\ node.ctl \in {"DataItemControl", "ListItemControl"}
       /\ ~is_keyboard_focusable(node)
    THEN FALSE
    ELSE IF ~is_browser /\ node.ctl = "ImageControl" /\ is_keyboard_focusable(node)
    THEN TRUE
    ELSE IF node.ctl \in (INTERACTIVE_CONTROL_TYPE_NAMES \cup DOCUMENT_CONTROL_TYPE_NAMES)
    THEN /\ is_element_visible(node)
         /\ is_element_enabled(node)
         /\ (~is_element_image(node)) \/ is_keyboard_focusable(node)
    ELSE IF node.ctl = "GroupControl"
    THEN /\ is_element_visible(node)
         /\ is_element_enabled(node)
         /\ is_default_action(node) \/ is_keyboard_focusable(node)
    ELSE FALSE

\* is_element_interactive
is_element_interactive(node, is_browser) ==
    IF is_browser /\ node.ctl \in {"DataItemControl", "ListItemControl"}
       /\ ~is_keyboard_focusable(node)
    THEN FALSE
    ELSE IF ~is_browser /\ node.ctl = "ImageControl" /\ is_keyboard_focusable(node)
    THEN TRUE
    ELSE IF node.ctl \in (INTERACTIVE_CONTROL_TYPE_NAMES \cup DOCUMENT_CONTROL_TYPE_NAMES)
    THEN /\ is_element_visible(node)
         /\ is_element_enabled(node)
         /\ (~is_element_image(node)) \/ is_keyboard_focusable(node)
    ELSE IF node.ctl = "GroupControl"
    THEN IF is_browser
         THEN /\ is_element_visible(node)
              /\ is_element_enabled(node)
              /\ is_default_action(node) \/ is_keyboard_focusable(node)
         ELSE FALSE
    ELSE FALSE

\* str.title() on the localized control types the provider reports
title(text) ==
    CASE text = "button" -> "Button"
      [] text = "pane" -> "Pane"
      [] text = "window" -> "Window"
      [] text = "dialog" -> "Dialog"
      [] text = "group" -> "Group"
      [] text = "text" -> "Text"
      [] text = "heading" -> "Heading"
      [] text = "link" -> "Link"
      [] text = "list item" -> "List Item"
      [] text = "edit" -> "Edit"
      [] text = "image" -> "Image"
      [] text = "graphic" -> "Graphic"
      [] text = "document" -> "Document"
      [] OTHER -> text

\* legacy_pattern.Value of a node
legacy_value(node) == <<"Value", node.id>>

\* TreeElementNode(name, control_type, value, bounding_box) with the legacy
\* value of the node it is built for; node is that provider node
TreeElementNode(node, name, control_type, bounding_box) ==
    [node |-> node.id, name |-> name, control_type |-> control_type,
     value |-> legacy_value(node), bounding_box |-> bounding_box]

\* ScrollElementNode with the rectangle as the provider gave it
ScrollElementNode(node) ==
    [node |-> node.id, name |-> node.id, control_type |-> title(node.loc),
     bounding_box |-> BoundingBox(node.box.left, node.box.top,
                                  node.box.right, node.box.bottom,
                                  width(node.box), height(node.box))]

\* TextElementNode(text)
TextElementNode(node) == [node |-> node.id, text |-> node.id]

\* the list keeps its last element
keep(list) == list

\* list.pop()
pop(list) == SubSeq(list, 1, Len(list) - 1)

\* the buffers of one get_nodes run, the two fields of the engine it
\* writes, what stopped it, and the log of the nodes tree_traversal was
\* called on
NoBuffers ==
    [interactive_nodes |-> <<>>, dom_interactive_nodes |-> <<>>,
     scrollable_nodes |-> <<>>, dom_informative_nodes |-> <<>>,
     dom_bounding_box |-> BoundingBox(0, 0, 0, 0, 0, 0), dom_info |-> FALSE,
     raised |-> FALSE, visits |-> <<>>]

\* the node without its identity and its children: what the classifier reads
attributes(node) ==
    [ctl |-> node.ctl, cls |-> node.cls, loc |-> node.loc, off |-> node.off,
     en |-> node.en, ctrl |-> node.ctrl, kbd |-> node.kbd, box |-> node.box,
     act |-> node.act, scroll |-> node.scroll, err |-> node.err]

\* the chain of first children is followed to its end whatever is on it
RECURSIVE first_child_chain_to_leaf(_)
first_child_chain_to_leaf(child) ==
    IF Raises(child, "GetFirstChildControl") THEN [id |-> "stop", ctl |-> "stop"]
    ELSE IF child.kids = <<>> THEN child
    ELSE first_child_chain_to_leaf(child.kids[1])

\* the end of the chain of first children, or "stop" where the loop returns
\* (at a node of an interactive type, or in the except clause)
RECURSIVE first_child_chain(_)
first_child_chain(child) ==
    IF Raises(child, "GetFirstChildControl") THEN [id |-> "stop", ctl |-> "stop"]
    ELSE IF child.kids = <<>> THEN child
    ELSE IF child.ctl \in INTERACTIVE_CONTROL_TYPE_NAMES THEN [id |-> "stop", ctl |-> "stop"]
    ELSE first_child_chain(child.kids[1])

\* dom_correction, on the dom_interactive_nodes buffer
dom_correction(buf, node) ==
    IF Raises(node, "GetFirstChildControl")
       /\ (node.loc \in {"list item", "item"}
           \/ (node.loc = "link" /\ node.ctl # "GroupControl"))
    THEN [buf EXCEPT !.raised = TRUE]
    ELSE IF element_has_child_element(node, "list item", "link")
       \/ element_has_child_element(node, "item", "link")
    THEN [buf EXCEPT !.dom_interactive_nodes = pop(@)]
    ELSE IF node.ctl = "GroupControl"
    THEN LET child == first_child_chain(node)
         IN  IF is_keyboard_focusable(node) /\ child.ctl = "TextControl"
             THEN [buf EXCEPT !.dom_interactive_nodes =
                      Append(pop(@),
                             TreeElementNode(node, child.id, node.loc,
                                 iou_bounding_box(buf.dom_bounding_box, node.box)))]
             ELSE [buf EXCEPT !.dom_interactive_nodes = pop(@)]
    ELSE IF element_has_child_element(node, "link", "heading")
    THEN LET heading == node.kids[1]
         IN  [buf EXCEPT !.dom_interactive_nodes =
                 Append(pop(@),
                        [TreeElementNode(heading, heading.id, "link",
                             iou_bounding_box(buf.dom_bounding_box, heading.box))
                            EXCEPT !.value = heading.id])]
    ELSE buf

\* the test at the head of tree_traversal
skipped(node) ==
    /\ node.off
    /\ node.ctl \notin {"GroupControl", "EditControl", "TitleBarControl"}
    /\ node.cls \notin {"Popup", "Windows.UI.Core.CoreComponentInputSource"}

\* the list in the order it has
forward(list) == list

\* children[::-1]
RECURSIVE reversed(_)
reversed(list) ==
    IF list = <<>> THEN <<>> ELSE Append(reversed(Tail(list)), Head(list))

\* the body of tree_traversal for one node, before its children
visit(buf, node, is_dom, ctx) ==
    LET b0 == [buf EXCEPT !.visits =
                  Append(@, [node |-> node.id, attrs |-> attributes(node),
                             is_dom |-> is_dom, parent |-> ctx.parent,
                        is_browser |-> ctx.is_browser,
                             skipped |-> skipped(node),
                             scrollable |-> is_element_scrollable(node),
                             interactive |-> is_element_interactive(node, ctx.is_browser),
                             text |-> is_element_text(node)])]
        b1 == IF is_element_scrollable(node)
              THEN [b0 EXCEPT !.scrollable_nodes = Append(@, ScrollElementNode(node))]
              ELSE b0
    IN  IF is_element_interactive(node, ctx.is_browser)
        THEN IF ctx.is_browser /\ is_dom
             THEN dom_correction(
                      [b1 EXCEPT !.dom_interactive_nodes =
                          Append(@, TreeElementNode(node, node.id, title(node.loc),
                                     iou_bounding_box(b1.dom_bounding_box, node.box)))],
                      node)
             ELSE [b1 EXCEPT !.interactive_nodes =
                      Append(@, TreeElementNode(node, node.id, title(node.loc),
                                 iou_bounding_box(ctx.window_bounding_box, node.box)))]
        ELSE IF is_element_text(node)
        THEN [b1 EXCEPT !.dom_informative_nodes = Append(@, TextElementNode(node))]
        ELSE b1

\* what the loop does for an on-screen WindowControl child before entering it
clear(buf, child, is_dom) ==
    IF is_dom
    THEN IF 10 * width(child.box) > 8 * buf.dom_bounding_box.width
         THEN [buf EXCEPT !.dom_interactive_nodes = <<>>]
         ELSE buf
    ELSE IF is_window_modal(child)
         THEN [buf EXCEPT !.interactive_nodes = <<>>]
         ELSE buf

\* tree_traversal(node, is_dom) and its loop over the children; an
\* exception (here: a raising IsOffscreen) ends the whole run
RECURSIVE tree_traversal(_, _, _, _), for_child(_, _, _, _)
tree_traversal(buf, node, is_dom, ctx) ==
    IF buf.raised THEN buf
    ELSE IF Raises(node, "IsOffscreen") THEN [buf EXCEPT !.raised = TRUE]
    ELSE IF skipped(node)
    THEN [buf EXCEPT !.visits =
             Append(@, [node |-> node.id, attrs |-> attributes(node),
                        is_dom |-> is_dom, parent |-> ctx.parent,
                        is_browser |-> ctx.is_browser,
                        skipped |-> TRUE, scrollable |-> FALSE,
                        interactive |-> FALSE, text |-> FALSE])]
    ELSE for_child(visit(buf, node, is_dom, ctx),
                   IF is_dom THEN node.kids ELSE reversed(node.kids),
                   is_dom, [ctx EXCEPT !.parent = node.id])

for_child(buf, children, is_dom, ctx) ==
    IF buf.raised \/ children = <<>> THEN buf
    ELSE LET child == Head(children)
             after ==
                 IF ctx.is_browser /\ child.aid = "RootWebArea"
                 THEN tree_traversal(
                          [buf EXCEPT !.dom_bounding_box =
                                          BoundingBox(child.box.left, child.box.top,
                                                      child.box.right, child.box.bottom,
                                                      width(child.box), height(child.box)),
                                      !.dom_info = TRUE],
                          child, TRUE, ctx)
                 ELSE IF child.ctl = "WindowControl"
                 THEN IF Raises(child, "IsOffscreen")
                      THEN [buf EXCEPT !.raised = TRUE]
                      ELSE tree_traversal(
                               IF ~child.off THEN clear(buf, child, is_dom) ELSE buf,
                               child, is_dom, ctx)
                 ELSE tree_traversal(buf, child, is_dom, ctx)
         IN  for_child(after, Tail(children), is_dom, ctx)

\* a check that raises counts as a browser
resolve_is_browser_unless_no(probe) == probe # "no"

\* is_browser, from Desktop.is_app_browser in its try
resolve_is_browser(probe) ==
    CASE probe = "yes" -> TRUE
      [] probe = "no" -> FALSE
      [] probe = "error" -> FALSE

\* both modes return the buffers of the normal mode
returned_buffers_normal(buf, is_browser, dom) ==
    <<buf.interactive_nodes \o buf.dom_interactive_nodes,
      buf.scrollable_nodes, buf.dom_informative_nodes>>

\* the return statement of get_nodes
returned_buffers(buf, is_browser, dom) ==
    IF dom
    THEN IF is_browser
         THEN <<buf.dom_interactive_nodes, buf.scrollable_nodes,
                buf.dom_informative_nodes>>
         ELSE <<<<>>, <<>>, <<>>>>
    ELSE <<buf.interactive_nodes \o buf.dom_interactive_nodes,
           buf.scrollable_nodes, buf.dom_informative_nodes>>

\* the buffers when get_nodes(node, use_dom) ends
run_get_nodes(node, probe) ==
    tree_traversal(NoBuffers, node, FALSE,
                   [is_browser |-> resolve_is_browser(probe),
                    window_bounding_box |-> node.box, parent |-> "none"])

\* a node as the provider reports an ordinary on-screen control
Node(id, ctl, loc) ==
    [id |-> id, ctl |-> ctl, cls |-> "", aid |-> "", loc |-> loc,
     off |-> FALSE, en |-> TRUE, ctrl |-> TRUE, kbd |-> FALSE,
     box |-> Rect(1, 1, 3, 2), act |-> "", scroll |-> "none",
     modal |-> FALSE, err |-> {}, kids |-> <<>>]

\* controls without children
Leaves ==
    {Node("OK", "ButtonControl", "button"),
     Node("Yes", "ButtonControl", "button"),
     [Node("Cancel", "ButtonControl", "button") EXCEPT !.off = TRUE, !.en = FALSE],
     [Node("Greyed", "ButtonControl", "button") EXCEPT !.en = FALSE],
     [Node("Flaky", "ButtonControl", "button") EXCEPT !.err = {"IsEnabled"}],
     [Node("Wide", "ButtonControl", "button") EXCEPT !.box = Rect(3, 2, 6, 5)],
     [Node("Outside", "ButtonControl", "button") EXCEPT !.box = Rect(5, 4, 7, 6)],
     [Node("Field", "EditControl", "edit") EXCEPT !.off = TRUE],
     [Node("Icon", "ImageControl", "image") EXCEPT !.kbd = TRUE],
     Node("Label", "TextControl", "text"),
     [Node("Broken", "PaneControl", "pane") EXCEPT !.err = {"IsOffscreen"}]}

\* what the containers below hold
Inner ==
    {Node("Go", "ButtonControl", "button"),
     Node("Caption", "TextControl", "text"),
     Node("Heading", "TextControl", "heading"),
     Node("Anchor", "HyperlinkControl", "link")}

\* controls that hold other controls
Containers ==
    {[Node("Pane", "PaneControl", "pane") EXCEPT !.scroll = "v", !.box = Rect(0, 0, 6, 5)],
     [Node("Hidden", "PaneControl", "pane") EXCEPT !.off = TRUE],
     [Node("Group", "GroupControl", "group") EXCEPT !.kbd = TRUE],
     Node("Link", "HyperlinkControl", "link"),
     [Node("Item", "ListItemControl", "list item") EXCEPT !.kbd = TRUE],
     [Node("Dialog", "WindowControl", "dialog") EXCEPT !.modal = TRUE],
     [Node("Popup", "WindowControl", "window") EXCEPT !.box = Rect(0, 0, 4, 3)],
     [Node("Gone", "WindowControl", "dialog") EXCEPT !.modal = TRUE, !.off = TRUE],
     [Node("Mute", "WindowControl", "dialog") EXCEPT !.modal = TRUE, !.err = {"IsModal"}]}

\* the largest number of children of the window and of the document
MaxKids == 2

\* the subtrees below a window or a document
Subtrees ==
    Leaves \cup Containers
      \cup {[c EXCEPT !.kids = <<k>>] : c \in Containers, k \in Inner}

\* the document root of a browser
Documents ==
    LET RootWebArea == [Node("Doc", "DocumentControl", "document")
                           EXCEPT !.aid = "RootWebArea", !.scroll = "v",
                                  !.box = Rect(0, 1, 4, 3)]
        Overlays == {c \in Containers : c.id \in {"Dialog", "Popup"}}
    IN  {RootWebArea} \cup {[RootWebArea EXCEPT !.kids = <<k>>] : k \in Subtrees}
          \cup (IF MaxKids >= 2
                THEN {[RootWebArea EXCEPT !.kids = <<k, o>>] :
                         k \in {n \in Leaves : n.id = "OK"}, o \in Overlays}
                     \cup {[RootWebArea EXCEPT !.kids = <<o, k>>] :
                         k \in {n \in Leaves : n.id = "OK"}, o \in Overlays}
                ELSE {})

\* the identities of the nodes of a tree, with repetitions counted
RECURSIVE size(_), ids(_)
size(node) ==
    1 + (IF Len(node.kids) >= 1 THEN size(node.kids[1]) ELSE 0)
      + (IF Len(node.kids) >= 2 THEN size(node.kids[2]) ELSE 0)

ids(node) ==
    {node.id} \cup (IF Len(node.kids) >= 1 THEN ids(node.kids[1]) ELSE {})
              \cup (IF Len(node.kids) >= 2 THEN ids(node.kids[2]) ELSE {})

\* the second child of a window with two children
Siblings ==
    {n \in Leaves : n.id \in {"OK", "Yes", "Cancel", "Label"}}
      \cup {c \in Containers : c.id \in {"Dialog", "Popup", "Gone", "Mute"}}

\* the windows get_nodes is run on: a top-level window over at most
\* MaxKids subtrees, every node there once
Trees ==
    LET Top == Subtrees \cup Documents
        Kids == {<<>>} \cup {<<a>> : a \in Top}
                  \cup (IF MaxKids >= 2
                        THEN {<<a, b>> : a \in Top, b \in Siblings}
                             \cup {<<b, a>> : a \in Top, b \in Siblings}
                        ELSE {})
        All == {[Node("Window", "WindowControl", "window")
                    EXCEPT !.box = Rect(0, 0, 4, 3), !.kids = k] : k \in Kids}
    IN  {t \in All : Cardinality(ids(t)) = size(t)}

\* what Desktop.is_app_browser(node) does: True, False, or it raises
Probes == {"yes", "no", "error"}

\* get_nodes(node, use_dom), run by a worker
GetNodes(probe, dom) ==
    LET buf == run_get_nodes(gn_node, probe)
    IN  /\ gn_probe' = probe
        /\ gn_use_dom' = dom
        /\ gn_acc' = buf
        /\ gn_result' = IF buf.raised THEN <<"raised">>
                        ELSE returned_buffers(buf, resolve_is_browser(probe), dom)
        /\ gn_prev' = IF gn_acc = <<>> THEN <<>> ELSE gn_acc.visits
        /\ dom_info' = IF buf.dom_info THEN 1 ELSE dom_info
        /\ UNCHANGED <<gn_node, now, calls, executor, uia_disabled_until, pc,
                       use_dom, active_app, other_apps_handle,
                       exclude_system_windows, t0, waitEnd, fut, root_partial,
                       root_warnings, apps, deadline, retry_counts,
                       future_to_app, pending, interactive_nodes,
                       scrollable_nodes, dom_informative_nodes, is_partial,
                       warnings, snap, obs, dom_bounding_box, traversals>>

WalkInit ==
    /\ Constructed
    /\ gn_node \in Trees
    /\ gn_probe = "none"
    /\ gn_use_dom = FALSE
    /\ gn_acc = <<>>
    /\ gn_result = <<>>
    /\ gn_prev = <<>>
    /\ traversals = <<>>

WalkNext == \E probe \in Probes, dom \in BOOLEAN : GetNodes(probe, dom)

WalkSpec == WalkInit /\ [][WalkNext]_vars

\* one control for every combination of the attributes the classifier reads
AttributeNodes ==
    {[Node("Control", ctl, loc) EXCEPT
         !.off = off, !.en = en, !.ctrl = ctrl, !.kbd = kbd, !.act = act,
         !.box = box, !.err = err] :
        ctl \in {"ButtonControl", "ListItemControl", "DataItemControl",
                 "DocumentControl", "EditControl", "ImageControl",
                 "GroupControl", "TextControl", "PaneControl"},
        loc \in {"graphic", "item"},
        off \in BOOLEAN, en \in BOOLEAN, ctrl \in BOOLEAN, kbd \in BOOLEAN,
        act \in {"", "Click"},
        box \in {Rect(1, 1, 3, 2), Rect(1, 1, 1, 2)},
        err \in {{}, {"IsEnabled"}, {"IsKeyboardFocusable"}}}

\* windows whose document holds one Group over a chain of first children
GroupWindows ==
    LET Leaf == {Node("Caption", "TextControl", "text"),
                 [Node("Caption", "TextControl", "text")
                     EXCEPT !.err = {"GetFirstChildControl"}],
                 Node("Go", "ButtonControl", "button"),
                 Node("Picture", "ImageControl", "graphic")}
        Mid == {Node("Span", "PaneControl", "pane"),
                [Node("Span", "PaneControl", "pane")
                    EXCEPT !.err = {"GetFirstChildControl"}],
                Node("Link", "HyperlinkControl", "link")}
        Chains == {<<>>} \cup {<<l>> : l \in Leaf} \cup {<<m>> : m \in Mid}
                    \cup {<<[m EXCEPT !.kids = <<l>>]>> : m \in Mid, l \in Leaf}
        Groups == {[Node("Group", "GroupControl", "group")
                       EXCEPT !.kbd = kbd, !.act = act, !.err = err,
                              !.box = Rect(1, 1, 6, 2), !.kids = chain] :
                      kbd \in BOOLEAN, act \in {"", "Click"},
                      err \in {{}, {"GetFirstChildControl"}, {"IsKeyboardFocusable"}},
                      chain \in Chains}
        RootWebArea(g) == [Node("Doc", "DocumentControl", "document")
                              EXCEPT !.aid = "RootWebArea", !.scroll = "v",
                                     !.box = Rect(0, 1, 4, 3), !.kids = <<g>>]
    IN  {[Node("Window", "WindowControl", "window")
             EXCEPT !.box = Rect(0, 0, 4, 3), !.kids = <<RootWebArea(g)>>] :
            g \in Groups}

\* get_nodes is run on a window that holds one such control, or one such group
ClassifyInit ==
    /\ Constructed
    /\ gn_node \in {[Node("Window", "WindowControl", "window")
                        EXCEPT !.box = Rect(0, 0, 4, 3), !.kids = <<n>>] :
                     n \in AttributeNodes} \cup GroupWindows
    /\ gn_probe = "none"
    /\ gn_use_dom = FALSE
    /\ gn_acc = <<>>
    /\ gn_result = <<>>
    /\ gn_prev = <<>>
    /\ traversals = <<>>

ClassifySpec == ClassifyInit /\ [][WalkNext]_vars

\* a browser window and a narrower one, each over its document root
BrowserWindows ==
    {<<[Node("Window", "WindowControl", "window")
           EXCEPT !.box = Rect(0, 0, 4, 3), !.kids = <<d>>],
       [Node("Panel", "WindowControl", "window")
           EXCEPT !.box = Rect(0, 0, 2, 3),
                  !.kids = <<[e EXCEPT !.box = Rect(0, 1, 2, 3)]>>]>> :
        d \in Documents, e \in {n \in Documents : Len(n.kids) = 2}}

\* two pool workers run get_nodes, each on one of the two windows
RaceInit ==
    /\ Constructed
    /\ gn_node = <<>>
    /\ gn_probe = "none"
    /\ gn_use_dom = FALSE
    /\ gn_acc = <<>>
    /\ gn_result = <<>>
    /\ gn_prev = <<>>
    /\ traversals \in {[i \in 1..2 |-> [node |-> w[i], at |-> "window",
                                         acc |-> NoBuffers]] :
                          w \in BrowserWindows}

\* tree_traversal of worker i visits its window and, in the loop over the
\* children, finds the document root: lines 521-532 write the two fields of
\* the engine
EnterDocument(i) ==
    /\ traversals[i].at = "window"
    /\ LET node == traversals[i].node
           child == node.kids[1]
       IN  /\ traversals' =
                 [traversals EXCEPT
                    ![i].at = "document",
                    ![i].acc = visit(NoBuffers, node, FALSE,
                                     [is_browser |-> TRUE,
                                      window_bounding_box |-> node.box,
                                      parent |-> "none"])]
           /\ dom_bounding_box' =
                 BoundingBox(child.box.left, child.box.top, child.box.right,
                             child.box.bottom, width(child.box), height(child.box))
           /\ dom_info' = i
    /\ UNCHANGED <<now, calls, executor, uia_disabled_until, pc, locals, snap,
                   obs, gn_node, gn_probe, gn_use_dom, gn_acc, gn_result, gn_prev>>

\* line 534: worker i traverses the subtree of its document root, and reads
\* self.dom_bounding_box where it clips an element and where it tests a
\* child window (lines 479, 404, 425, 540)
TraverseDocument(i) ==
    /\ traversals[i].at = "document"
    /\ LET node == traversals[i].node
       IN  traversals' =
               [traversals EXCEPT
                  ![i].at = "done",
                  ![i].acc = tree_traversal(
                                 [@ EXCEPT !.dom_bounding_box = dom_bounding_box,
                                           !.dom_info = TRUE],
                                 node.kids[1], TRUE,
                                 [is_browser |-> TRUE,
                                  window_bounding_box |-> node.box,
                                  parent |-> node.id])]
    /\ UNCHANGED <<now, calls, executor, uia_disabled_until, dom_info, pc,
                   locals, snap, obs, gn_node, gn_probe, gn_use_dom, gn_acc,
                   gn_result, gn_prev, dom_bounding_box>>

RaceNext == \E i \in 1..2 : EnterDocument(i) \/ TraverseDocument(i)

RaceSpec == RaceInit /\ [][RaceNext]_vars

----------------------------------------------------------------------------
(* Properties *)

\* C1: a call in which a job it started has not returned (because the job is
\* blocked for ever, or is still executing) returns all the same: the time the
\* calling thread spends in the call never exceeds the root timeout plus the
\* fallback timeout plus timeout_s, which is at most twice timeout_s, and the
\* snapshot of such a call has is_partial = TRUE.
C1_BoundedPartialReturn ==
    /\ pc # "idle" =>
          /\ now - t0 <= root_timeout_s(use_dom) + fallback_timeout_s(use_dom)
                            + timeout_s(use_dom)
          /\ now - t0 <= 2 * timeout_s(use_dom)
    /\ obs.phase = "returned" /\ obs.stuck => snap.is_partial

\* a call has returned a partial snapshot while a job of it is blocked for ever
C1_Witness ==
    /\ obs.phase = "returned"
    /\ obs.stuck
    /\ ~obs.short
    /\ snap.is_partial
    /\ \E j \in DOMAIN executor : executor[j].st = "hung"

\* C2: whatever jobs raise or block in the root enumeration, the fallback
\* lookup and the window traversals, and also when the fallback lookup yields
\* no control, no exception leaves get_state.
C2_NeverRaises == obs.phase # "raised"

\* the fallback lookup yielded None, the traversal of None failed until it was
\* dropped, and the call returned
C2_Witness ==
    /\ obs.phase = "returned"
    /\ obs.targets = <<0>>
    /\ "dropped" \in obs.signals
    /\ snap.is_partial

\* C3: every failure that no retry recovers, a provider error on the handle of
\* one top-level child during the root enumeration included, gives a snapshot
\* with is_partial = TRUE and at least one warning.
C3_EveryFailureFlagged ==
    obs.phase = "returned" /\ (obs.signals # {} \/ obs.skipped) =>
        snap.is_partial /\ snap.warnings # <<>>

\* C4: a call made while now < disabledUntil returns at once the empty
\* snapshot with no DomInfo, is_partial = TRUE and the cooldown warning,
\* submits no job and leaves the pool as it is (so no provider call is made
\* for it).
C4_BreakerShortCircuit ==
    [][(pc = "idle" /\ calls' = calls + 1 /\ now < uia_disabled_until) =>
          /\ snap' = TreeState(0, <<>>, <<>>, <<>>, TRUE, <<W_DISABLED>>)
          /\ executor' = executor
          /\ pc' = "idle"
          /\ now' = now
          /\ dom_info' = dom_info]_vars

\* a call was short-circuited although a document root had been captured
C4_Witness ==
    /\ obs.phase = "returned"
    /\ obs.short
    /\ dom_info # 0
    /\ snap.dom_info = 0
    /\ snap.warnings = <<W_DISABLED>>

\* C5: after the breaker was tripped at time T with cooldown C, a call made at
\* a time before T + C is short-circuited and submits nothing, and a call made
\* at T + C or later submits the root enumeration again.
C5_CooldownWindow ==
    [][(pc = "idle" /\ calls' = calls + 1 /\ obs.tripped) =>
          IF now < obs.trip_end
          THEN obs'.short /\ pc' = "idle" /\ executor' = executor
          ELSE /\ ~obs'.short
               /\ pc' = "root_wait"
               /\ executor' = Append(executor, Job("root", 0))]_vars

\* a call made after the cooldown of an earlier trip waits for the root
\* enumeration
C5_Witness ==
    /\ obs.tripped
    /\ ~obs.cooling
    /\ ~obs.short
    /\ pc = "root_wait"
    /\ executor[fut].kind = "root"

\* C6: when the wait for the root enumeration times out, the breaker is set to
\* at least the time of the timeout plus the cooldown, the cancel leaves a job
\* that has started as it is, and the snapshot of the call has
\* is_partial = TRUE and the root timeout warning.
C6_RootTimeout ==
    "root_timeout" \in obs.signals =>
        /\ obs.trip_end <= uia_disabled_until
        /\ obs.root_st[1] \in {"running", "hung"} => obs.root_st[2] = obs.root_st[1]
        /\ obs.root_st[1] = "queued" => obs.root_st[2] = "cancelled"
        /\ obs.phase = "returned" =>
              /\ snap.is_partial
              /\ \E i \in DOMAIN snap.warnings : snap.warnings[i] = W_ROOT_TIMEOUT

\* the root enumeration was executing when its wait timed out, and it is still
\* executing after the call has returned
C6_Witness ==
    /\ obs.phase = "returned"
    /\ "root_timeout" \in obs.signals
    /\ obs.root_st = <<"running", "running">>
    /\ \E j \in DOMAIN executor : executor[j].st = "running"
    /\ uia_disabled_until > 0

\* C7: in each list of the snapshot the elements of the windows stand in the
\* order in which the window jobs were submitted.
C7_SubmissionOrder ==
    obs.phase = "returned" =>
        LET at(w) == CHOOSE i \in DOMAIN obs.targets : obs.targets[i] = w
            ordered(list) ==
                \A i, k \in DOMAIN list :
                    i < k => at(list[i]) <= at(list[k])
        IN  /\ ordered(snap.interactive_nodes)
            /\ ordered(snap.scrollable_nodes)
            /\ ordered(snap.dom_informative_nodes)

\* C8: is_partial of the snapshot is TRUE exactly if a partial signal occurred
\* in the call (breaker open, root timeout or failure, fallback failure or
\* timeout, join deadline, a dropped window job); a retry that succeeds is no
\* signal.  The warnings are those of the signals, one for each, the warnings
\* of the join before those of the root phase.
C8_PartialIffSignal ==
    obs.phase = "returned" =>
        LET warning(s) ==
                CASE s = "breaker" -> W_DISABLED
                  [] s = "root_timeout" -> W_ROOT_TIMEOUT
                  [] s = "root_failed" -> W_ROOT_FAILED
                  [] s = "fallback" -> W_FALLBACK
                  [] s = "deadline" -> W_JOIN_TIMEOUT
                  [] OTHER -> W_SUBTREE
            root_phase == {W_ROOT_TIMEOUT, W_ROOT_FAILED, W_FALLBACK}
            w == snap.warnings
        IN  /\ snap.is_partial <=> obs.signals # {}
            /\ Range(w) = {warning(s) : s \in obs.signals}
            /\ Len(w) = Cardinality(obs.signals \ {"dropped"})
                            + Cardinality(obs.drops)
            /\ \A i, k \in DOMAIN w :
                  i < k /\ w[i] \in root_phase => w[k] \in root_phase

\* a window job failed, was resubmitted and succeeded, and the snapshot is
\* not partial
C8_Witness ==
    /\ obs.phase = "returned"
    /\ obs.retried
    /\ ~snap.is_partial
    /\ snap.warnings = <<>>
    /\ snap.interactive_nodes # <<>>

\* C9: a failing window job is dropped only after it has been resubmitted
\* THREAD_MAX_RETRIES = 3 times, or when the deadline has passed; the drop sets
\* is_partial and adds the generic warning.
C9_ThreeResubmissions ==
    /\ \A d \in obs.drops : d.late \/ d.resub = THREAD_MAX_RETRIES
    /\ obs.phase = "returned" /\ obs.drops # {} =>
          /\ snap.is_partial
          /\ \E i \in DOMAIN snap.warnings : snap.warnings[i] = W_SUBTREE

\* C10: when the join deadline is exhausted, the snapshot is partial with the
\* timeout warning, it holds the result of every job that returned before the
\* deadline, and the outstanding jobs are cancelled only if they have not
\* started.
C10_DeadlineKeepsCompleted ==
    obs.phase = "returned" /\ "deadline" \in obs.signals =>
        /\ snap.is_partial
        /\ \E i \in DOMAIN snap.warnings : snap.warnings[i] = W_JOIN_TIMEOUT
        /\ obs.lost = {}
        /\ \A p \in obs.left :
              p[1] \in {"running", "hung"} => p[2] = p[1]

\* C11: the calling thread only submits jobs, waits and merges: in a step of
\* the calling thread no job starts executing, none finishes and the captured
\* document root is not written, so every provider call (root enumeration,
\* handle lookup, traversal) is made in a step of a pool worker.
C11_CallerMakesNoProviderCall ==
    [][(pc' # pc \/ calls' # calls \/ locals' # locals) =>
          LET count(pool, S) ==
                  Cardinality({j \in DOMAIN pool : pool[j].st \in S})
          IN  /\ count(executor', {"running"}) = count(executor, {"running"})
              /\ count(executor', {"hung"}) = count(executor, {"hung"})
              /\ count(executor', {"done", "failed"})
                    <= count(executor, {"done", "failed"})
              /\ dom_info' = dom_info]_vars

\* the root enumeration was blocked, the fallback lookup returned the active
\* window and its traversal returned elements: three jobs, three workers
C11_Witness ==
    /\ obs.phase = "returned"
    /\ "root_timeout" \in obs.signals
    /\ obs.root_st[1] \in {"running", "hung"}
    /\ Len(obs.targets) = 1
    /\ snap.interactive_nodes = obs.targets
    /\ snap.interactive_nodes # <<0>>

\* C12: all jobs of all calls are in the one pool of the engine, which has at
\* least one worker: at no time do more jobs execute than the pool has
\* workers, the jobs that earlier calls left executing or blocked counted
\* among them.
C12_OnePoolBounded ==
    /\ UIA_MAX_WORKERS >= 1
    /\ Cardinality({j \in DOMAIN executor :
                       executor[j].st \in {"running", "hung"}}) <= UIA_MAX_WORKERS

\* every worker is taken, one of them by a job that an earlier call left
\* blocked, and a job of the running call waits in the queue
C12_Witness ==
    /\ \E j \in DOMAIN executor : ~executor[j].own /\ executor[j].st = "hung"
    /\ Cardinality(Busy(executor)) = UIA_MAX_WORKERS
    /\ \E j \in DOMAIN executor : executor[j].own /\ executor[j].st = "queued"

\* C13: the breaker's disabledUntil and the captured DomInfo are written only
\* by the calling thread: no step of a pool worker changes either.  (While no
\* call runs, the stored disabledUntil is the time left and shrinks as time
\* passes; that is no write.)
C13_OnlyCallerWritesShared ==
    [][/\ dom_info' # dom_info =>
             (pc' # pc \/ calls' # calls \/ locals' # locals)
       /\ uia_disabled_until' # uia_disabled_until /\ pc # "idle" =>
             (pc' # pc \/ calls' # calls \/ locals' # locals)]_vars

\* C14: a call in which no document root of a browser is met returns no
\* DomInfo, whatever earlier calls captured.
C14_NoStateCarriedOver ==
    obs.phase = "returned" /\ ~obs.short
        /\ (\A i \in DOMAIN obs.targets :
               obs.targets[i] = 0 \/ ~HasRootWebArea(obs.targets[i]))
    => snap.dom_info = 0

\* the nodes of a tree
RECURSIVE nodes(_)
nodes(node) ==
    {node} \cup (IF Len(node.kids) >= 1 THEN nodes(node.kids[1]) ELSE {})
           \cup (IF Len(node.kids) >= 2 THEN nodes(node.kids[2]) ELSE {})

\* get_nodes has run and returned its three lists
Returned == gn_probe # "none" /\ gn_result # <<"raised">>

\* the elements of a list that were built from the node
OfNode(list, node) == {i \in DOMAIN list : list[i].node = node.id}

\* C15: in document mode a window that is not a browser, or whose browser
\* check raised, gives three empty lists whatever its subtree holds (a
\* traversal that raises gives no lists at all).
C15_DocumentModeNonBrowserEmpty ==
    gn_use_dom /\ gn_probe \in {"no", "error"} =>
        gn_result \in {<<<<>>, <<>>, <<>>>>, <<"raised">>}

\* the browser check raised, the traversal filled the interactive, the
\* scrollable and the informative buffer, and three empty lists came back
C15_Witness ==
    /\ gn_use_dom
    /\ gn_probe = "error"
    /\ gn_acc.interactive_nodes # <<>>
    /\ gn_acc.scrollable_nodes # <<>>
    /\ gn_acc.dom_informative_nodes # <<>>
    /\ gn_result = <<<<>>, <<>>, <<>>>>

\* C16: the skip rule leaves out the skipped node only: each child of a
\* skipped node is still visited.
C16_SkipKeepsChildren ==
    Returned =>
        \A i \in DOMAIN gn_acc.visits :
            gn_acc.visits[i].skipped =>
                \A n \in nodes(gn_node) :
                    n.id = gn_acc.visits[i].node =>
                        \A k \in DOMAIN n.kids :
                            \E j \in DOMAIN gn_acc.visits :
                                gn_acc.visits[j].node = n.kids[k].id

\* C17: in a window that is not a browser, in normal mode and with no modal
\* child, a node of an interactive control type is in the interactive list
\* once if it is visible and enabled, and not at all if it is off-screen
\* (and no Edit) or disabled.
C17_InteractiveOnceIffVisibleEnabled ==
    Returned /\ ~gn_use_dom /\ gn_probe \in {"no", "error"}
        /\ (\A m \in nodes(gn_node) : m.ctl = "WindowControl" => ~m.modal)
    => \A n \in nodes(gn_node) :
          n.ctl \in INTERACTIVE_CONTROL_TYPE_NAMES =>
              /\ is_element_visible(n) /\ is_element_enabled(n) =>
                     Cardinality(OfNode(gn_result[1], n)) = 1
              /\ (n.off /\ n.ctl # "EditControl") \/ ~is_element_enabled(n) =>
                     Cardinality(OfNode(gn_result[1], n)) = 0

\* the visits of child windows met outside a document subtree that were on
\* screen and reported themselves modal
ModalVisits ==
    {i \in DOMAIN gn_acc.visits :
        /\ i > 1
        /\ ~gn_acc.visits[i].is_dom
        /\ \E n \in nodes(gn_node) :
              /\ n.id = gn_acc.visits[i].node
              /\ n.ctl = "WindowControl"
              /\ ~n.off
              /\ is_window_modal(n)}

\* C18: in normal mode, once an on-screen child window that reports itself
\* modal is reached, no interactive element gathered before it is left in
\* the window's interactive list; and in a window without such a child (the
\* child windows are off-screen, not modal, or their modal query fails)
\* nothing gathered outside a document is removed.
C18_ModalClearsAll ==
    Returned /\ ~gn_use_dom =>
        /\ \A i \in ModalVisits :
              \A e \in DOMAIN gn_result[1] :
                  \E j \in DOMAIN gn_acc.visits :
                      /\ gn_acc.visits[j].node = gn_result[1][e].node
                      /\ j >= i
        /\ ModalVisits = {} =>
              \A j \in DOMAIN gn_acc.visits :
                  gn_acc.visits[j].interactive /\ ~gn_acc.visits[j].is_dom =>
                      \E e \in DOMAIN gn_result[1] :
                          gn_result[1][e].node = gn_acc.visits[j].node

\* C19: every box in the returned lists, on interactive elements, on the
\* synthetic elements of the reconciler and on scrollable elements, has
\* right >= left and bottom >= top, lies within the screen if it is not
\* degenerate, and is the all-zero box if it is.
C19_BoxesWithinScreen ==
    Returned =>
        \A k \in {1, 2} : \A e \in DOMAIN gn_result[k] :
            LET box == gn_result[k][e].bounding_box
            IN  /\ box.right >= box.left
                /\ box.bottom >= box.top
                /\ box.right > box.left /\ box.bottom > box.top =>
                       /\ 0 <= box.left /\ box.right <= ScreenWidth
                       /\ 0 <= box.top /\ box.bottom <= ScreenHeight
                /\ box.right = box.left \/ box.bottom = box.top =>
                       box = BoundingBox(0, 0, 0, 0, 0, 0)

\* the nodes the classifier was asked about, in this run and the one before
Classified ==
    IF gn_probe = "none" THEN {}
    ELSE {v \in {gn_acc.visits[i] : i \in DOMAIN gn_acc.visits}
                  \cup {gn_prev[i] : i \in DOMAIN gn_prev} : ~v.skipped}

\* the three verdicts on a visited node
Verdict(v) == <<v.interactive, v.scrollable, v.text>>

C21_FlagErrorsNotPropagated ==
    gn_probe # "none" =>
        /\ gn_result # <<"raised">>
        /\ ~gn_acc.raised
        /\ \A n \in nodes(gn_node) :
              n.err \cap {"IsEnabled", "IsKeyboardFocusable", "IsOffscreen"} # {} =>
                  /\ OfNode(gn_acc.interactive_nodes, n) = {}
                  /\ OfNode(gn_acc.dom_interactive_nodes, n) = {}
                  /\ OfNode(gn_acc.scrollable_nodes, n) = {}
                  /\ OfNode(gn_acc.dom_informative_nodes, n) = {}

\* C22: a returned snapshot is not changed afterwards: the TreeState changes
\* only where get_state returns one and where a later call begins to build
\* its own; no step of a pool worker, of the call's detached jobs or of a
\* later call's jobs, and no passing of time changes any of its fields.
C22_SnapshotImmutable ==
    [][snap' # snap =>
          \/ pc # "idle" /\ pc' = "idle"
          \/ pc = "idle" /\ calls' = calls + 1]_vars

\* a call has returned a snapshot without DomInfo, and a job it left behind
\* has since captured a document root
C22_Witness ==
    /\ pc = "idle"
    /\ obs.phase = "returned"
    /\ ~obs.short
    /\ snap.dom_info = 0
    /\ dom_info # 0

\* C23: the overall budget covers the whole call: the time spent waiting for
\* the root enumeration and for the fallback is taken from the budget of the
\* join, so the calling thread never waits longer than timeout_s from entry
\* to return.
C23_BudgetCoversWholeCall ==
    pc # "idle" =>
        /\ now - t0 <= timeout_s(use_dom)
        /\ pc = "join_wait" => deadline <= t0 + timeout_s(use_dom)

\* C24: the fallback is attempted exactly when the root enumeration left no
\* target and an active window with a handle other than 0 is known, and it
\* waits at most min(1, root timeout); on success the resolved window is the
\* only target of the fan-out; on failure or timeout the call is partial,
\* carries the warning of the fallback and submits no window job.
C24_FallbackExactlyWhenNoTargets ==
    [][/\ pc = "root_wait" /\ pc' # "root_wait" /\ obs'.phase # "raised" =>
             IF pc' = "fallback_wait"
             THEN /\ active_app.present /\ active_app.handle # 0
                  /\ executor'[fut'].kind = "fallback"
                  /\ waitEnd' - now' <= Min(FALLBACK_TIMEOUT_S, root_timeout_s(use_dom))
             ELSE /\ ~(active_app.present /\ active_app.handle # 0)
                        \/ obs'.targets # <<>>
                  /\ \A j \in Own(executor') : executor'[j].kind # "fallback"
       /\ pc = "fallback_wait" /\ pc' # "fallback_wait" /\ obs'.phase # "raised" =>
             \/ /\ obs'.targets = <<active_app.handle>>
                /\ "fallback" \notin obs'.signals
             \/ /\ obs'.targets = <<>>
                /\ pc' = "idle"
                /\ snap'.is_partial
                /\ \E i \in DOMAIN snap'.warnings : snap'.warnings[i] = W_FALLBACK
                /\ \A j \in Own(executor) : executor[j].kind # "win"]_vars

\* the top-level children in provider order, without those in unread (the
\* handle could not be read), those whose handle is a known other window,
\* the desktop root if an active window exists, and the system windows if
\* their exclusion is configured
ExpectedTargets(unread) ==
    LET kept(w) ==
            /\ w \notin unread
            /\ w \notin other_apps_handle
            /\ active_app.present => ClassName(w) # "Progman"
            /\ exclude_system_windows => ClassName(w) \notin EXCLUDED_APPS
    IN  SelectSeq(Children, kept)

\* the root enumeration of the running call has returned its targets
RootDone == pc = "root_wait" /\ executor[fut].st = "done"

AllBlocked ==
    Cardinality({j \in DOMAIN executor :
                    ~executor[j].own /\ executor[j].st = "hung"}) = UIA_MAX_WORKERS

\* C26: hangs accumulate: once every worker is blocked for ever in a detached
\* job, no job starts any more, and a call that is not short-circuited times
\* out at the root enumeration, trips the breaker and returns an empty
\* snapshot with is_partial = TRUE.
C26_HangsAccumulate ==
    [][AllBlocked =>
          /\ \A j \in DOMAIN executor' : executor'[j].st # "running"
          /\ pc # "idle" /\ pc' = "idle" =>
                /\ obs'.phase = "returned"
                /\ "root_timeout" \in obs'.signals
                /\ obs'.tripped
                /\ uia_disabled_until' > 0
                /\ snap'.is_partial
                /\ snap'.interactive_nodes = <<>>
                /\ snap'.scrollable_nodes = <<>>
                /\ snap'.dom_informative_nodes = <<>>
                /\ \E i \in DOMAIN snap'.warnings :
                      snap'.warnings[i] = W_ROOT_TIMEOUT]_vars

\* the second call found every worker blocked by jobs of the first: its root
\* enumeration was still queued when the wait timed out, and it returned
C26_Witness ==
    /\ calls = 2
    /\ obs.phase = "returned"
    /\ ~obs.short
    /\ obs.root_st = <<"queued", "cancelled">>
    /\ obs.targets = <<>>
    /\ "fallback" \notin obs.signals
    /\ Cardinality({j \in DOMAIN executor : executor[j].st = "hung"}) = UIA_MAX_WORKERS

\* the place of the visit of the node with this identity in the log (0: none)
VisitOf(id) ==
    LET hit == {i \in DOMAIN gn_acc.visits : gn_acc.visits[i].node = id}
    IN  IF hit = {} THEN 0 ELSE CHOOSE i \in hit : TRUE

\* the place of a child among the children of its parent
SiblingIndex(parent, id) ==
    LET n == CHOOSE m \in nodes(gn_node) : m.id = parent
    IN  CHOOSE k \in DOMAIN n.kids : n.kids[k].id = id

\* the identities of the nodes below the node with this identity, and its own
Below(id) == ids(CHOOSE m \in nodes(gn_node) : m.id = id)

\* C27: the traversal is depth-first and pre-order: a node is visited before
\* its children and a subtree is finished before the next sibling is begun;
\* the children of a node in normal mode are visited last child first, those
\* of a node in document mode first child first (the node that holds the
\* document root is in normal mode); and the elements of each buffer are in
\* the order of the visits.
C27_TraversalOrder ==
    gn_probe # "none" =>
        LET log == gn_acc.visits
        IN  /\ \A i \in DOMAIN log :
                  log[i].parent # "none" =>
                      /\ VisitOf(log[i].parent) # 0
                      /\ VisitOf(log[i].parent) < i
            /\ \A i \in DOMAIN log, j \in DOMAIN log :
                  i < j /\ log[i].parent = log[j].parent /\ log[i].parent # "none" =>
                      LET p == log[i].parent
                      IN  /\ IF log[VisitOf(p)].is_dom
                             THEN SiblingIndex(p, log[i].node) < SiblingIndex(p, log[j].node)
                             ELSE SiblingIndex(p, log[i].node) > SiblingIndex(p, log[j].node)
                          /\ \A k \in DOMAIN log :
                                log[k].node \in Below(log[i].node) => k < j
            /\ \A list \in {gn_acc.interactive_nodes, gn_acc.dom_interactive_nodes,
                            gn_acc.scrollable_nodes, gn_acc.dom_informative_nodes} :
                  \A a \in DOMAIN list, b \in DOMAIN list :
                      a < b => VisitOf(list[a].node) < VisitOf(list[b].node)

\* a browser window with two children, one of them the document root with
\* two children of its own: all five nodes were visited, and each pair of
\* siblings gave an element each
C27_Witness ==
    /\ gn_probe = "yes"
    /\ ~gn_acc.raised
    /\ Len(gn_acc.dom_interactive_nodes) >= 2
    /\ \E i \in DOMAIN gn_acc.visits, j \in DOMAIN gn_acc.visits :
          /\ i < j
          /\ gn_acc.visits[i].parent = "Doc" /\ gn_acc.visits[j].parent = "Doc"
          /\ gn_acc.visits[i].is_dom /\ gn_acc.visits[j].is_dom
    /\ \E i \in DOMAIN gn_acc.visits, j \in DOMAIN gn_acc.visits :
          /\ i < j
          /\ gn_acc.visits[i].parent = "Window" /\ gn_acc.visits[j].parent = "Window"
          /\ gn_acc.visits[i].interactive /\ gn_acc.visits[j].interactive

\* the node of the tree with this identity
NodeOf(id) == CHOOSE m \in nodes(gn_node) : m.id = id

\* the visits, in document mode, of on-screen child windows wider than 80% of
\* the captured viewport
OverlayVisits ==
    {i \in DOMAIN gn_acc.visits :
        /\ gn_acc.visits[i].is_dom
        /\ gn_acc.visits[i].parent # "none"
        /\ NodeOf(gn_acc.visits[i].node).ctl = "WindowControl"
        /\ ~NodeOf(gn_acc.visits[i].node).off
        /\ 10 * width(NodeOf(gn_acc.visits[i].node).box)
              > 8 * gn_acc.dom_bounding_box.width}

\* C28: in document mode an on-screen child window wider than 80% of the
\* viewport clears the dom-interactive elements gathered before it; without
\* such a child (the child windows are narrower or off-screen) no button is
\* removed; and the subtree of every child window reached, cleared or not,
\* in document or normal mode, is traversed.
C28_OverlayClearsAndRecurses ==
    Returned =>
        /\ \A i \in OverlayVisits :
              \A e \in DOMAIN gn_acc.dom_interactive_nodes :
                  VisitOf(gn_acc.dom_interactive_nodes[e].node) >= i
        /\ OverlayVisits = {} =>
              \A j \in DOMAIN gn_acc.visits :
                  /\ gn_acc.visits[j].is_dom
                  /\ gn_acc.visits[j].interactive
                  /\ gn_acc.visits[j].attrs.ctl = "ButtonControl"
                  => OfNode(gn_acc.dom_interactive_nodes,
                            NodeOf(gn_acc.visits[j].node)) # {}
        /\ \A i \in DOMAIN gn_acc.visits :
              /\ gn_acc.visits[i].parent # "none"
              /\ gn_acc.visits[i].attrs.ctl = "WindowControl"
              => \A k \in DOMAIN NodeOf(gn_acc.visits[i].node).kids :
                    VisitOf(NodeOf(gn_acc.visits[i].node).kids[k].id) # 0

\* the identities of the document root and of the nodes below it
BelowDocument ==
    UNION {ids(m) : m \in {n \in nodes(gn_node) : n.aid = "RootWebArea"}}

\* C29: document mode is entered only in a browser and only at the child
\* that is the document root, where its rectangle becomes the viewport box
\* and DomInfo is captured, and it holds for every node below; so a window
\* that is not a browser has no dom-interactive element, and in a browser
\* the elements of the nodes below the document root are in the
\* dom-interactive buffer and the others in the interactive buffer.
C29_DocumentModeOnlyBelowRoot ==
    gn_probe # "none" =>
        /\ \A i \in DOMAIN gn_acc.visits :
              gn_acc.visits[i].is_dom <=>
                  gn_probe = "yes" /\ gn_acc.visits[i].node \in BelowDocument
        /\ gn_acc.dom_info <=>
              gn_probe = "yes" /\ \E i \in DOMAIN gn_acc.visits :
                                      gn_acc.visits[i].attrs.ctl = "DocumentControl"
        /\ gn_acc.dom_info =>
              \E n \in nodes(gn_node) :
                  /\ n.aid = "RootWebArea"
                  /\ gn_acc.dom_bounding_box =
                        BoundingBox(n.box.left, n.box.top, n.box.right,
                                    n.box.bottom, width(n.box), height(n.box))
        /\ gn_acc.dom_info => dom_info = 1
        /\ gn_probe # "yes" => gn_acc.dom_interactive_nodes = <<>>
        /\ \A e \in DOMAIN gn_acc.dom_interactive_nodes :
              gn_acc.dom_interactive_nodes[e].node \in BelowDocument
        /\ gn_probe = "yes" =>
              \A e \in DOMAIN gn_acc.interactive_nodes :
                  gn_acc.interactive_nodes[e].node \notin BelowDocument
        /\ \A i \in DOMAIN gn_acc.visits :
              gn_acc.visits[i].interactive /\ OverlayVisits = {}
                  /\ gn_acc.visits[i].attrs.ctl = "ButtonControl" =>
                  IF gn_acc.visits[i].is_dom
                  THEN OfNode(gn_acc.dom_interactive_nodes,
                              NodeOf(gn_acc.visits[i].node)) # {}
                  ELSE ModalVisits = {} =>
                          OfNode(gn_acc.interactive_nodes,
                                 NodeOf(gn_acc.visits[i].node)) # {}

\* in a browser window a button outside the document went to the interactive
\* buffer and a button below the document root to the dom-interactive one
C29_Witness ==
    /\ gn_probe = "yes"
    /\ dom_info = 1
    /\ \E e \in DOMAIN gn_acc.interactive_nodes :
          gn_acc.interactive_nodes[e].control_type = "Button"
    /\ \E e \in DOMAIN gn_acc.dom_interactive_nodes :
          gn_acc.dom_interactive_nodes[e].control_type = "Button"

\* the five-rule table, first matching rule first
FiveRules(node, in_browser) ==
    LET Visible == is_element_visible(node)
        Enabled == is_element_enabled(node)
        Image == is_element_image(node)
        DefaultAction == is_default_action(node)
        Focusable == is_keyboard_focusable(node)
    IN  CASE in_browser /\ node.ctl \in {"DataItemControl", "ListItemControl"}
                /\ ~Focusable -> FALSE
          [] ~in_browser /\ node.ctl = "ImageControl" /\ Focusable -> TRUE
          [] node.ctl \in INTERACTIVE_CONTROL_TYPE_NAMES \cup DOCUMENT_CONTROL_TYPE_NAMES ->
                Visible /\ Enabled /\ (~Image \/ Focusable)
          [] node.ctl = "GroupControl" ->
                in_browser /\ Visible /\ Enabled /\ (DefaultAction \/ Focusable)
          [] OTHER -> FALSE

\* C30: the interactive verdict is that of the first matching rule of the
\* five-rule table, for every node and both values of the browser flag, and
\* it is the verdict the traversal used on every node it classified.
C30_FiveRuleTable ==
    /\ \A n \in nodes(gn_node), b \in BOOLEAN :
          is_element_interactive(n, b) = FiveRules(n, b)
    /\ \A v \in Classified : v.interactive = FiveRules(v.attrs, v.is_browser)

\* a Group with a default action that cannot take the keyboard focus was
\* classified outside a browser, and found not interactive
C30_Witness ==
    /\ gn_probe = "no"
    /\ \E v \in Classified :
          /\ v.attrs.ctl = "GroupControl"
          /\ v.attrs.act = "Click"
          /\ ~v.attrs.kbd
          /\ is_element_visible(v.attrs)
          /\ is_element_enabled(v.attrs)
          /\ ~v.interactive

\* C31: in document mode the element of a Group that was appended as
\* interactive is never left in the dom-interactive buffer; exactly one
\* synthetic element takes its place (named after the terminal leaf, with the
\* group's legacy value and the group's rectangle clipped to the viewport)
\* if and only if the group is keyboard-focusable, no node on its chain of
\* first children is of an interactive type, the terminal leaf is a text
\* node and no read on the chain raised; otherwise the group has no element.
C31_GroupReconciled ==
    Returned =>
        \A i \in DOMAIN gn_acc.visits :
            gn_acc.visits[i].attrs.ctl = "GroupControl" /\ gn_acc.visits[i].is_dom
              /\ gn_acc.visits[i].interactive /\ OverlayVisits = {} =>
                LET group == NodeOf(gn_acc.visits[i].node)
                    onchain(n) ==
                        \/ n = group
                        \/ /\ group.kids # <<>>
                           /\ \/ n = group.kids[1]
                              \/ /\ group.kids[1].kids # <<>>
                                 /\ n = group.kids[1].kids[1]
                    links == {n \in nodes(group) : onchain(n)}
                    leaves == {n \in links : n.kids = <<>>}
                    reemitted ==
                        /\ is_keyboard_focusable(group)
                        /\ \A n \in links :
                              /\ ~Raises(n, "GetFirstChildControl")
                              /\ n.ctl \notin INTERACTIVE_CONTROL_TYPE_NAMES
                        /\ \E n \in leaves : n.ctl = "TextControl" /\ n # group
                    found == {e \in DOMAIN gn_acc.dom_interactive_nodes :
                                 gn_acc.dom_interactive_nodes[e].node = group.id}
                IN  /\ \A e \in found :
                          gn_acc.dom_interactive_nodes[e].name # group.id
                    /\ reemitted =>
                          /\ Cardinality(found) = 1
                          /\ \A e \in found, n \in leaves :
                                gn_acc.dom_interactive_nodes[e] =
                                    [node |-> group.id, name |-> n.id,
                                     control_type |-> group.loc,
                                     value |-> legacy_value(group),
                                     bounding_box |->
                                         iou_bounding_box(gn_acc.dom_bounding_box,
                                                          group.box)]
                    /\ ~reemitted => found = {}

\* a focusable group over a pane over a text was replaced by its synthetic
\* element, clipped to the viewport
C31_Witness ==
    /\ Returned
    /\ \E i \in DOMAIN gn_acc.visits :
          /\ gn_acc.visits[i].attrs.ctl = "GroupControl"
          /\ gn_acc.visits[i].is_dom /\ gn_acc.visits[i].interactive
          /\ NodeOf(gn_acc.visits[i].node).kids # <<>>
          /\ NodeOf(gn_acc.visits[i].node).kids[1].ctl = "PaneControl"
    /\ \E e \in DOMAIN gn_acc.dom_interactive_nodes :
          /\ gn_acc.dom_interactive_nodes[e].node = "Group"
          /\ gn_acc.dom_interactive_nodes[e].name = "Caption"
          /\ gn_acc.dom_interactive_nodes[e].bounding_box.right = 4

\* C32: only a root-enumeration timeout changes the breaker.  The time left
\* until the breaker closes goes down only as time passes; the step that
\* handles the root timeout sets it to the larger of what was left and the
\* cooldown; every other step (a short-circuited call, a root enumeration
\* that failed, the fallback, the join, a dropped job, a worker) leaves the
\* stored time as it is.
C32_OnlyRootTimeoutTrips ==
    [][LET left == uia_disabled_until - now
           left_after == uia_disabled_until' - now'
           idle_tick == /\ pc = "idle" /\ pc' = "idle"
                        /\ calls' = calls /\ executor' = executor
           passed == IF idle_tick \/ now' = now + 1 THEN 1 ELSE 0
       IN  IF pc = "root_wait" /\ "root_timeout" \in obs'.signals
           THEN /\ Max(0, left_after) = Max(left, UIA_TIMEOUT_COOLDOWN_S)
                /\ pc' # "idle" =>
                      uia_disabled_until' =
                          Max(uia_disabled_until, now + UIA_TIMEOUT_COOLDOWN_S)
           ELSE /\ Max(0, left_after) = Max(0, left - passed)
                /\ pc' # "idle" => uia_disabled_until' = uia_disabled_until]_vars

\* a call that tripped the breaker went on to a fallback lookup and ran into
\* its join deadline, and the breaker still holds what is left of the cooldown
C32_Witness ==
    /\ obs.phase = "returned"
    /\ {"root_timeout", "deadline"} \subseteq obs.signals
    /\ obs.targets # <<>>
    /\ uia_disabled_until > 0
    /\ uia_disabled_until < UIA_TIMEOUT_COOLDOWN_S

\* C33: when a call returns its snapshot, every window has at most one of
\* its traversal jobs done, whatever the number of resubmissions; each list
\* of the snapshot holds the elements of a window at most once, and only of
\* a target whose job is done; and if is_partial is FALSE, every target has
\* exactly one job done and each list holds what that traversal returned.
C33_OneAttemptPerWindow ==
    [][pc # "idle" /\ pc' = "idle" /\ obs'.phase = "returned" =>
          LET count(list, w) == Cardinality({i \in DOMAIN list : list[i] = w})
              done(w) == {j \in Own(executor) :
                             /\ executor[j].kind = "win"
                             /\ executor[j].app = w
                             /\ executor[j].st = "done"}
              lists == <<snap'.interactive_nodes, snap'.scrollable_nodes,
                         snap'.dom_informative_nodes>>
              returned(w) == <<get_nodes(w, use_dom).e, get_nodes(w, use_dom).s,
                               get_nodes(w, use_dom).t>>
          IN  \A w \in Windows \cup {0} :
                 /\ Cardinality(done(w)) <= 1
                 /\ \A k \in 1..3 :
                       /\ count(lists[k], w) <= 1
                       /\ count(lists[k], w) = 1 =>
                             /\ w \in Range(obs'.targets)
                             /\ done(w) # {}
                             /\ returned(w)[k] = <<w>>
                 /\ ~snap'.is_partial /\ w \in Range(obs'.targets) =>
                       /\ Cardinality(done(w)) = 1
                       /\ \A k \in 1..3 :
                             count(lists[k], w) = Len(returned(w)[k])]_vars

\* a complete snapshot of two windows, one of them traversed again after an
\* attempt that failed
C33_Witness ==
    /\ obs.phase = "returned"
    /\ ~snap.is_partial
    /\ obs.retried
    /\ Len(obs.targets) = 2
    /\ Len(snap.interactive_nodes) = 2
    /\ snap.interactive_nodes[1] # snap.interactive_nodes[2]

\* C34: within one call the traversal of a window is submitted at most
\* THREAD_MAX_RETRIES times, so at most THREAD_MAX_RETRIES times the number
\* of targets jobs are submitted; and every pass of the join loop's body
\* lowers the number of outstanding futures plus the submissions still
\* allowed, so the loop ends without the help of the deadline.
C34_BoundedSubmissions ==
    [][LET jobs(pool) == {j \in Own(pool) : pool[j].kind = "win"}
           allowed(pool) == THREAD_MAX_RETRIES * Len(obs.targets)
                               - Cardinality(jobs(pool))
       IN  /\ pc = "join_wait" =>
                /\ \A w \in Windows \cup {0} :
                      Submissions(executor, w) <= THREAD_MAX_RETRIES
                /\ allowed(executor) >= 0
           /\ pc = "join_wait" /\ pc' = "join_wait" /\ pending' # pending =>
                Cardinality(future_to_app') + allowed(executor')
                    < Cardinality(future_to_app) + allowed(executor)]_vars

\* every traversal of both targets failed at once: each window was dropped
\* at its third failure, before the deadline
C34_Witness ==
    /\ obs.phase = "returned"
    /\ Len(obs.targets) = 2
    /\ "deadline" \notin obs.signals
    /\ \A i \in DOMAIN obs.targets :
          \E d \in obs.drops :
              /\ d.app = obs.targets[i]
              /\ d.count = THREAD_MAX_RETRIES
              /\ ~d.late

\* C35: when a call returns, none of the jobs it submitted (root
\* enumeration, fallback lookup, window traversals) is left in the work
\* queue: the only jobs still queued are those earlier calls had left there.
C35_NoQueuedJobLeft ==
    [][pc # "idle" /\ pc' = "idle" =>
          Cardinality({j \in DOMAIN executor' : executor'[j].st = "queued"})
             <= Cardinality({j \in DOMAIN executor :
                                ~executor[j].own /\ executor[j].st = "queued"})]_vars

\* C36: when two workers traverse two browser windows at the same time, the
\* viewport box a traversal uses below its document root is the rectangle of
\* its own window's document root, and its buffers are those a traversal of
\* the window on its own gives.
C36_ViewportOfOwnWindow ==
    \A i \in DOMAIN traversals :
        traversals[i].at = "done" =>
            LET node == traversals[i].node
                child == node.kids[1]
                alone == run_get_nodes(node, "yes")
            IN  /\ traversals[i].acc.dom_bounding_box =
                      BoundingBox(child.box.left, child.box.top, child.box.right,
                                  child.box.bottom, width(child.box),
                                  height(child.box))
                /\ traversals[i].acc.dom_interactive_nodes =
                      alone.dom_interactive_nodes
                /\ traversals[i].acc.interactive_nodes = alone.interactive_nodes

\* C37: the visit of one node leaves at most one element in the interactive
\* and dom-interactive buffers together, and a text element only if it left
\* none there; it leaves at most one scrollable element, which may come with
\* an interactive one, and none if the node is of an interactive or of an
\* informative control type, whatever its scroll pattern says.  (The element
\* that replaces a link over a heading is left by the visit of the link.)
C37_OneElementPerNode ==
    Returned =>
        \A n \in nodes(gn_node) :
            LET count(list, id) ==
                    Cardinality({e \in DOMAIN list : list[e].node = id})
                replaced == {e \in DOMAIN gn_acc.dom_interactive_nodes :
                                gn_acc.dom_interactive_nodes[e].control_type = "link"}
                own == {e \in DOMAIN gn_acc.dom_interactive_nodes :
                           /\ e \notin replaced
                           /\ gn_acc.dom_interactive_nodes[e].node = n.id}
                link == {e \in replaced :
                            /\ n.kids # <<>>
                            /\ gn_acc.dom_interactive_nodes[e].node = n.kids[1].id}
                interactive == count(gn_acc.interactive_nodes, n.id)
                                  + Cardinality(own) + Cardinality(link)
                informative == count(gn_acc.dom_informative_nodes, n.id)
                scrollable == count(gn_acc.scrollable_nodes, n.id)
            IN  /\ interactive <= 1
                /\ informative <= 1
                /\ scrollable <= 1
                /\ interactive = 1 => informative = 0
                /\ n.ctl \in INTERACTIVE_CONTROL_TYPE_NAMES
                             \cup INFORMATIVE_CONTROL_TYPE_NAMES =>
                      /\ scrollable = 0
                      /\ ~is_element_scrollable([n EXCEPT !.scroll = "v"])

\* outside a browser a focusable image, which passes the test for text as
\* well, left one interactive element and no text, next to a pane that left
\* a scrollable element only
C37_Witness ==
    /\ Returned
    /\ gn_probe = "no"
    /\ \E v \in {gn_acc.visits[i] : i \in DOMAIN gn_acc.visits} :
          /\ v.attrs.ctl = "ImageControl" /\ v.interactive /\ v.text
          /\ \E e \in DOMAIN gn_acc.interactive_nodes :
                gn_acc.interactive_nodes[e].node = v.node
          /\ \A e \in DOMAIN gn_acc.dom_informative_nodes :
                gn_acc.dom_informative_nodes[e].node # v.node
    /\ gn_acc.scrollable_nodes # <<>>

\* C38: every element of the interactive list get_nodes returns was built
\* for a node that is visible and enabled, whatever its control type and
\* whether the window is a browser or not.
C38_InteractiveVisibleEnabled ==
    Returned =>
        \A e \in DOMAIN gn_result[1] :
            /\ is_element_visible(NodeOf(gn_result[1][e].node))
            /\ is_element_enabled(NodeOf(gn_result[1][e].node))

====
